---------------------------- MODULE Spec2Model ----------------------------
(***************************************************************************)
(* A model of the physics / collision core of neptune.                     *)
(*                                                                         *)
(* Numbers.  The program computes in f64.  The model computes in exact     *)
(* rational arithmetic extended with the three IEEE special values the     *)
(* code can produce: a number is a pair <<n, d>> in lowest terms with      *)
(* d > 0, or <<1, 0>> (+inf), <<-1, 0>> (-inf), <<0, 0>> (NaN).  Rounding  *)
(* error and signed zeros are outside the model; division by zero, 0/0     *)
(* and NaN propagation are inside it.  A square root is taken exactly; the *)
(* inputs are drawn from sets on which every root the code takes is        *)
(* rational (see the Representable guards).                                *)
(***************************************************************************)
EXTENDS Integers, Sequences, FiniteSets, TLC

-----------------------------------------------------------------------------
(* f64 arithmetic *)

Abs(n) == IF n < 0 THEN -n ELSE n

Sign(n) == IF n < 0 THEN -1 ELSE IF n > 0 THEN 1 ELSE 0

\* Euclid's algorithm, three divisions at a time.
GCD[a \in Nat, b \in Nat] ==
    CASE b = 0 -> a
      [] b # 0 /\ a % b = 0 -> b
      [] b # 0 /\ a % b # 0 /\ b % (a % b) = 0 -> a % b
      [] OTHER -> GCD[b % (a % b), (a % b) % (b % (a % b))]

\* A fraction n/d brought to the canonical form described above.
Norm(n, d) ==
    IF d = 0 THEN <<Sign(n), 0>>
    ELSE LET s == IF d < 0 THEN -1 ELSE 1
             g == GCD[Abs(n), Abs(d)]
         IN  <<(s * n) \div g, (s * d) \div g>>

R(n) == <<n, 1>>
Q(n, d) == Norm(n, d)
NaN == <<0, 0>>
Zero == <<0, 1>>
One == <<1, 1>>
Half == <<1, 2>>
Two == <<2, 1>>

IsNaN(a) == a = NaN

RNeg(a) == <<-a[1], a[2]>>

RAdd(a, b) ==
    IF a = NaN THEN NaN
    ELSE IF b = NaN THEN NaN
    ELSE IF a[2] = 0 /\ b[2] = 0 THEN (IF a[1] = b[1] THEN a ELSE NaN)
    ELSE IF a[2] = 0 THEN a
    ELSE IF b[2] = 0 THEN b
    ELSE LET g == GCD[a[2], b[2]]
         IN  Norm(a[1] * (b[2] \div g) + b[1] * (a[2] \div g),
                  (a[2] \div g) * b[2])

RSub(a, b) == RAdd(a, RNeg(b))

\* inf * 0 and NaN * x come out as <<0, 0>>, inf * x as <<+-1, 0>>.
RMul(a, b) ==
    IF a[2] = 0 THEN Norm(Sign(a[1]) * Sign(b[1]), 0)
    ELSE IF b[2] = 0 THEN Norm(Sign(a[1]) * Sign(b[1]), 0)
    ELSE LET g1 == GCD[Abs(a[1]), b[2]]
             g2 == GCD[Abs(b[1]), a[2]]
         IN  Norm((a[1] \div g1) * (b[1] \div g2),
                  (a[2] \div g2) * (b[2] \div g1))

\* 1/a; 1/0 is +inf (the sign of a zero is not modelled).
RInv(a) == IF a[1] < 0 THEN <<-a[2], -a[1]>> ELSE <<a[2], a[1]>>

RDiv(a, b) == RMul(a, RInv(b))

\* The comparisons of f64: every comparison with NaN is false.
RLt(a, b) ==
    /\ ~IsNaN(a) /\ ~IsNaN(b)
    /\ IF a[2] = 0 \/ b[2] = 0
       THEN (IF a[2] = 0 /\ b[2] = 0 THEN a[1] < b[1]
             ELSE IF a[2] = 0 THEN a[1] < 0 ELSE b[1] > 0)
       ELSE LET g == GCD[a[2], b[2]]
            IN  a[1] * (b[2] \div g) < b[1] * (a[2] \div g)

RLe(a, b) == ~IsNaN(a) /\ ~IsNaN(b) /\ (a = b \/ RLt(a, b))

REq(a, b) == ~IsNaN(a) /\ ~IsNaN(b) /\ a = b

RAbs(a) == <<Abs(a[1]), a[2]>>

RSq(a) == RMul(a, a)

\* floor(sqrt(n)) for 0 <= n, by bisection on lo <= sqrt(n) < hi.
RECURSIVE Bisect(_, _, _)
Bisect(n, lo, hi) ==
    IF hi - lo <= 1 THEN lo
    ELSE LET mid == (lo + hi) \div 2
         IN  IF mid * mid <= n THEN Bisect(n, mid, hi) ELSE Bisect(n, lo, mid)

ISqrt(n) == Bisect(n, 0, IF n < 46340 THEN n + 1 ELSE 46341)

IsSquare(n) == n >= 0 /\ ISqrt(n) * ISqrt(n) = n

\* Whether f64::sqrt(a) is a value of the model: a is special, negative, or
\* the square of a rational.
HasRoot(a) == a[2] = 0 \/ a[1] < 0 \/ (IsSquare(a[1]) /\ IsSquare(a[2]))

\* f64::sqrt: NaN for NaN and for negative numbers, +inf for +inf.
RSqrt(a) ==
    IF IsNaN(a) \/ a[1] < 0 THEN NaN
    ELSE IF a[2] = 0 THEN a
    ELSE LET n == CHOOSE k \in {ISqrt(a[1])} : k * k = a[1]
             d == CHOOSE k \in {ISqrt(a[2])} : k * k = a[2]
         IN  <<n, d>>

\* A let statement of the program: the value is computed first, and the
\* statements after it work on the computed value.
let(value, rest(_)) == CHOOSE result \in {rest(v) : v \in {value}} : TRUE

\* Two let statements, the second of which does not use the first.
let2(value1, value2, rest(_, _)) ==
    CHOOSE result \in {rest(v1, v2) : v1 \in {value1}, v2 \in {value2}} : TRUE

\* An array of the program, indexed from 0: its elements are computed when it
\* is built.
Array(elements) == elements @@ <<>>

-----------------------------------------------------------------------------
(* Vector3 / Point3: <<x, y, z>> *)

V3(x, y, z) == <<R(x), R(y), R(z)>>
VZero == V3(0, 0, 0)
unit_x == V3(1, 0, 0)
unit_y == V3(0, 1, 0)
unit_z == V3(0, 0, 1)

VAdd(u, v) == <<RAdd(u[1], v[1]), RAdd(u[2], v[2]), RAdd(u[3], v[3])>>
VSub(u, v) == <<RSub(u[1], v[1]), RSub(u[2], v[2]), RSub(u[3], v[3])>>
VNeg(u) == <<RNeg(u[1]), RNeg(u[2]), RNeg(u[3])>>
VScale(s, u) == <<RMul(s, u[1]), RMul(s, u[2]), RMul(s, u[3])>>
VDot(u, v) == RAdd(RAdd(RMul(u[1], v[1]), RMul(u[2], v[2])), RMul(u[3], v[3]))
VCross(u, v) ==
    << RSub(RMul(u[2], v[3]), RMul(u[3], v[2])),
       RSub(RMul(u[3], v[1]), RMul(u[1], v[3])),
       RSub(RMul(u[1], v[2]), RMul(u[2], v[1])) >>
magnitude2(u) == VDot(u, u)
magnitude(u) == RSqrt(magnitude2(u))
\* cgmath: self / self.magnitude(); the zero vector gives (NaN, NaN, NaN).
normalize(u) ==
    let(magnitude(u), LAMBDA m :
        <<RDiv(u[1], m), RDiv(u[2], m), RDiv(u[3], m)>>)
distance(p, q) == magnitude(VSub(q, p))

-----------------------------------------------------------------------------
(* Quaternion: <<s, x, y, z>> *)

QIdentity == <<One, Zero, Zero, Zero>>
QVec(q) == <<q[2], q[3], q[4]>>
QMagnitude2(q) ==
    RAdd(RAdd(RSq(q[1]), RSq(q[2])), RAdd(RSq(q[3]), RSq(q[4])))
QConj(q) == <<q[1], RNeg(q[2]), RNeg(q[3]), RNeg(q[4])>>
QScale(s, q) == <<RMul(s, q[1]), RMul(s, q[2]), RMul(s, q[3]), RMul(s, q[4])>>
QAdd(p, q) ==
    <<RAdd(p[1], q[1]), RAdd(p[2], q[2]), RAdd(p[3], q[3]), RAdd(p[4], q[4])>>
\* Hamilton product.
QMul(p, q) ==
    LET pv == QVec(p)
        qv == QVec(q)
        s  == RSub(RMul(p[1], q[1]), VDot(pv, qv))
        v  == VAdd(VAdd(VScale(p[1], qv), VScale(q[1], pv)), VCross(pv, qv))
    IN  <<s, v[1], v[2], v[3]>>
\* cgmath Rotation::invert for Quaternion: conjugate / magnitude2.
QInvert(q) == QScale(RInv(QMagnitude2(q)), QConj(q))
\* cgmath Quaternion * Vector3: 2 * (v x (v x vec + s vec)) + vec.
rotate_vector(q, vec) ==
    LET tmp == VCross(QVec(q), VAdd(VCross(QVec(q), vec), VScale(q[1], vec)))
    IN  VAdd(VScale(Two, tmp), vec)

-----------------------------------------------------------------------------
(* geometry::Sphere, geometry::Cuboid and physics::contacts *)

Sphere(radius, center) ==
    [type |-> "Sphere", radius |-> radius, center |-> center]

Cuboid(center, half_size, rotation) ==
    [type |-> "Cuboid", center |-> center, half_size |-> half_size,
     rotation |-> rotation]

None == [some |-> FALSE]

\* Some(ContactData { point, normal, penetration_depth })
Some(point, normal, depth) ==
    [some |-> TRUE, point |-> point, normal |-> normal,
     penetration_depth |-> depth]

\* The result of Option::unwrap on None.
Panicked == [some |-> FALSE, panic |-> TRUE]

\* contact_sphere_sphere with touching spheres not counted as overlapping.
contact_sphere_sphere_strict(sphere1, sphere2) ==
    let(VSub(sphere2.center, sphere1.center), LAMBDA r :
    let(magnitude2(r), LAMBDA r2 :
        IF RLt(r2, RSq(RAdd(sphere1.radius, sphere2.radius)))
        THEN let(IF REq(r2, Zero) THEN unit_x ELSE normalize(r),
                 LAMBDA normal :
             let(VAdd(sphere2.center, VScale(RNeg(sphere2.radius), normal)),
                 LAMBDA point :
             let(VAdd(sphere1.center, VScale(sphere1.radius, normal)),
                 LAMBDA point2 :
                    Some(point, normal, distance(point, point2)))))
        ELSE None))

\* contact_sphere_sphere returning the surface point of the first sphere.
contact_sphere_sphere_point_of_first(sphere1, sphere2) ==
    let(VSub(sphere2.center, sphere1.center), LAMBDA r :
    let(magnitude2(r), LAMBDA r2 :
        IF RLe(r2, RSq(RAdd(sphere1.radius, sphere2.radius)))
        THEN let(IF REq(r2, Zero) THEN unit_x ELSE normalize(r),
                 LAMBDA normal :
             let(VAdd(sphere2.center, VScale(RNeg(sphere2.radius), normal)),
                 LAMBDA point :
             let(VAdd(sphere1.center, VScale(sphere1.radius, normal)),
                 LAMBDA point2 :
                    Some(point2, normal, distance(point, point2)))))
        ELSE None))

contact_sphere_sphere(sphere1, sphere2) ==
    let(VSub(sphere2.center, sphere1.center), LAMBDA r :
    let(magnitude2(r), LAMBDA r2 :
        IF RLe(r2, RSq(RAdd(sphere1.radius, sphere2.radius)))
        THEN let(IF REq(r2, Zero) THEN unit_x ELSE normalize(r),
                 LAMBDA normal :
             let(VAdd(sphere2.center, VScale(RNeg(sphere2.radius), normal)),
                 LAMBDA point :
             let(VAdd(sphere1.center, VScale(sphere1.radius, normal)),
                 LAMBDA point2 :
                    Some(point, normal, distance(point, point2)))))
        ELSE None))

cuboid_axes(cuboid) ==
    Array([i \in 0..2 |->
        rotate_vector(cuboid.rotation,
            CASE i = 0 -> unit_x [] i = 1 -> unit_y [] OTHER -> unit_z)])

cuboid_projection_onto_axis(cuboid, axis) ==
    let(cuboid_axes(cuboid), LAMBDA axes :
        RAdd(RAdd(RMul(cuboid.half_size[1], RAbs(VDot(axes[0], axis))),
                  RMul(cuboid.half_size[2], RAbs(VDot(axes[1], axis)))),
             RMul(cuboid.half_size[3], RAbs(VDot(axes[2], axis)))))

cuboid_cuboid_penetration_along_axis(cuboid1, cuboid2, axis) ==
    let(cuboid_projection_onto_axis(cuboid1, axis), LAMBDA projection_1 :
    let(cuboid_projection_onto_axis(cuboid2, axis), LAMBDA projection_2 :
    let(RAbs(VDot(axis, VSub(cuboid2.center, cuboid1.center))),
        LAMBDA distance_along_axis :
            RSub(RAdd(projection_1, projection_2), distance_along_axis))))

\* Cuboid::closest_interior_point: clamp of one local coordinate.
Clamp(dist_along_axis, half) ==
    IF RLt(half, dist_along_axis) THEN half
    ELSE IF RLt(dist_along_axis, RNeg(half)) THEN RNeg(half)
    ELSE dist_along_axis

closest_interior_point(cuboid, point) ==
    let(rotate_vector(QInvert(cuboid.rotation), VSub(point, cuboid.center)),
        LAMBDA local_point :
    let(<< Clamp(local_point[1], cuboid.half_size[1]),
           Clamp(local_point[2], cuboid.half_size[2]),
           Clamp(local_point[3], cuboid.half_size[3]) >>,
        LAMBDA local_closest :
            VAdd(rotate_vector(cuboid.rotation, local_closest),
                 cuboid.center)))

\* contact_sphere_cuboid with the normal taken from the closest point to the
\* sphere center.
contact_sphere_cuboid_normal_reversed(sphere, cuboid) ==
    let(closest_interior_point(cuboid, sphere.center), LAMBDA contact_point :
    let(VSub(contact_point, sphere.center), LAMBDA r :
        IF RLe(magnitude2(r), RSq(sphere.radius))
        THEN let(normalize(VNeg(r)), LAMBDA normal :
             let(magnitude(VSub(VScale(sphere.radius, normal), VNeg(r))),
                 LAMBDA depth :
                    Some(contact_point, normal, depth)))
        ELSE None))

contact_sphere_cuboid(sphere, cuboid) ==
    let(closest_interior_point(cuboid, sphere.center), LAMBDA contact_point :
    let(VSub(contact_point, sphere.center), LAMBDA r :
        IF RLe(magnitude2(r), RSq(sphere.radius))
        THEN let(normalize(r), LAMBDA normal :
             let(magnitude(VSub(VScale(sphere.radius, normal), r)),
                 LAMBDA depth :
                    Some(contact_point, normal, depth)))
        ELSE None))

\* The 15 candidate axes of contact_cuboid_cuboid, indexed as in the code.
candidate_axes(a_axes, b_axes) ==
    Array([i \in 0..14 |->
        CASE i < 3  -> a_axes[i]
          [] i < 6  -> b_axes[i - 3]
          [] i = 6  -> VCross(a_axes[0], b_axes[0])
          [] i = 7  -> VCross(a_axes[0], b_axes[1])
          [] i = 8  -> VCross(a_axes[0], b_axes[2])
          [] i = 9  -> VCross(a_axes[1], b_axes[0])
          [] i = 10 -> VCross(a_axes[1], b_axes[1])
          [] i = 11 -> VCross(a_axes[1], b_axes[2])
          [] i = 12 -> VCross(a_axes[2], b_axes[0])
          [] i = 13 -> VCross(b_axes[2], b_axes[1])
          [] OTHER  -> VCross(a_axes[2], b_axes[2])])

\* The code normalizes an axis and then measures the penetration along it.
\* The penetration is positively homogeneous in the axis, so the value for
\* the normalized axis is p / sqrt(s) with p the penetration along the raw
\* axis and s its squared magnitude.  The pair [p, s] stands for that real
\* number; it is compared exactly and only turned into a number of the model
\* (SurdValue) where the code returns it.
\* n1/d1 < n2/d2 for two ratios that are not negative, by their continued
\* fractions: no product is taken.
RatioLt[n1 \in Nat, d1 \in Nat, n2 \in Nat, d2 \in Nat] ==
    CASE n1 \div d1 # n2 \div d2 -> n1 \div d1 < n2 \div d2
      [] n1 \div d1 = n2 \div d2 /\ n2 % d2 = 0 -> FALSE
      [] n1 \div d1 = n2 \div d2 /\ n2 % d2 # 0 /\ n1 % d1 = 0 -> TRUE
      [] OTHER -> RatioLt[d2, n2 % d2, d1, n1 % d1]

SquareLt(k1, k2) ==
    let2(RDiv(RSq(k1.p), k1.s), RDiv(RSq(k2.p), k2.s), LAMBDA square1, square2 :
        RatioLt[square1[1], square1[2], square2[1], square2[2]])

SurdLt(k1, k2) ==
    IF RLt(k1.p, Zero)
    THEN (IF RLt(k2.p, Zero) THEN SquareLt(k2, k1) ELSE TRUE)
    ELSE (IF RLt(k2.p, Zero) THEN FALSE ELSE SquareLt(k1, k2))

SurdValue(k) == RDiv(k.p, RSqrt(k.s))

\* .filter(|axis| axis.magnitude2() > 0.0001): the indices that remain.
kept_axes(axes) == {i \in 0..14 : RLt(Q(1, 10000), magnitude2(axes[i]))}

\* .map(normalize) .map(cuboid_cuboid_penetration_along_axis)
axis_depths(a, b, axes, kept) ==
    Array([i \in kept |->
        [p |-> cuboid_cuboid_penetration_along_axis(a, b, axes[i]),
         s |-> magnitude2(axes[i])]])

\* .min_by_key: the first of the elements that are equally minimum.
min_by_key(indices, key) ==
    CHOOSE i \in indices :
        \A j \in indices :
            /\ j < i => SurdLt(key[i], key[j])
            /\ j > i => ~SurdLt(key[j], key[i])

\* The supporting vertex of a cuboid, in its local frame: each coordinate of
\* half_size negated where flip holds for that local axis.
Vertex(half_size, flip) ==
    << IF flip[0] THEN RNeg(half_size[1]) ELSE half_size[1],
       IF flip[1] THEN RNeg(half_size[2]) ELSE half_size[2],
       IF flip[2] THEN RNeg(half_size[3]) ELSE half_size[3] >>

\* An edge-edge axis treated as a face of b.
contact_on_axis_edge_as_face(a, b, a_axes, b_axes, min_index, depth, normal) ==
    IF min_index < 3
    THEN let(Vertex(b.half_size,
                 Array([i \in 0..2 |-> RLt(Zero, VDot(normal, b_axes[i]))])),
             LAMBDA vertex :
                Some(VAdd(rotate_vector(b.rotation, vertex), b.center),
                     normal, depth))
    ELSE let(Vertex(a.half_size,
                 Array([i \in 0..2 |-> RLt(VDot(normal, a_axes[i]), Zero)])),
             LAMBDA vertex :
                Some(VAdd(rotate_vector(a.rotation, vertex), a.center),
                     normal, depth))

\* contact_cuboid_cuboid from "if min_index < 3" on: the contact for the axis
\* min_index, oriented as normal.
contact_on_axis(a, b, a_axes, b_axes, min_index, depth, normal) ==
    IF min_index < 3
    THEN let(Vertex(b.half_size,
                 Array([i \in 0..2 |-> RLt(Zero, VDot(normal, b_axes[i]))])),
             LAMBDA vertex :
                Some(VAdd(rotate_vector(b.rotation, vertex), b.center),
                     normal, depth))
    ELSE IF min_index < 6
    THEN let(Vertex(a.half_size,
                 Array([i \in 0..2 |-> RLt(VDot(normal, a_axes[i]), Zero)])),
             LAMBDA vertex :
                Some(VAdd(rotate_vector(a.rotation, vertex), a.center),
                     normal, depth))
    ELSE None

\* The axis taken as the normal whichever way it points.
contact_for_minimum_unoriented(a, b, a_axes, b_axes, axis, min_index, min_depth) ==
    IF RLe(Zero, min_depth.p)
    THEN contact_on_axis(a, b, a_axes, b_axes, min_index,
                         SurdValue(min_depth), axis)
    ELSE None

\* contact_cuboid_cuboid from "if min_depth >= 0.0" on.
contact_for_minimum(a, b, a_axes, b_axes, axis, min_index, min_depth) ==
    IF RLe(Zero, min_depth.p)
    THEN let(IF RLt(VDot(axis, VSub(b.center, a.center)), Zero)
             THEN VNeg(axis) ELSE axis,
             LAMBDA normal :
                contact_on_axis(a, b, a_axes, b_axes, min_index,
                                SurdValue(min_depth), normal))
    ELSE None

contact_cuboid_cuboid(a, b) ==
    let(cuboid_axes(a), LAMBDA a_axes :
    let(cuboid_axes(b), LAMBDA b_axes :
    let(candidate_axes(a_axes, b_axes), LAMBDA axes :
    let(kept_axes(axes), LAMBDA kept :
        IF kept = {} THEN Panicked
        ELSE let(axis_depths(a, b, axes, kept), LAMBDA depths :
             let(min_by_key(kept, depths), LAMBDA min_index :
                contact_for_minimum(a, b, a_axes, b_axes, axes[min_index],
                                    min_index, depths[min_index])))))))

-----------------------------------------------------------------------------
(* 3x3 matrices (nalgebra Matrix3), as a tuple of three rows *)

M3Identity == <<V3(1, 0, 0), V3(0, 1, 0), V3(0, 0, 1)>>
M3Scale(s, m) == <<VScale(s, m[1]), VScale(s, m[2]), VScale(s, m[3])>>
M3Col(m, j) == <<m[1][j], m[2][j], m[3][j]>>
M3Vec(m, vec) == <<VDot(m[1], vec), VDot(m[2], vec), VDot(m[3], vec)>>
M3Row(row, b) ==
    <<VDot(row, M3Col(b, 1)), VDot(row, M3Col(b, 2)), VDot(row, M3Col(b, 3))>>
M3Mul(a, b) == <<M3Row(a[1], b), M3Row(a[2], b), M3Row(a[3], b)>>

\* interop::try_3x3_inverse; the Err(()) result is the value "Err".
Minor(a, b, c, d) == RSub(RMul(a, b), RMul(c, d))
inverse_for_determinant(m, determinant) ==
    IF REq(determinant, Zero) THEN "Err"
    ELSE << << RDiv(Minor(m[2][2], m[3][3], m[3][2], m[2][3]), determinant),
               RDiv(Minor(m[1][3], m[3][2], m[3][3], m[1][2]), determinant),
               RDiv(Minor(m[1][2], m[2][3], m[2][2], m[1][3]), determinant) >>,
            << RDiv(RNeg(Minor(m[2][1], m[3][3], m[3][1], m[2][3])), determinant),
               RDiv(Minor(m[1][1], m[3][3], m[3][1], m[1][3]), determinant),
               RDiv(Minor(m[1][3], m[2][1], m[2][3], m[1][1]), determinant) >>,
            << RDiv(Minor(m[2][1], m[3][2], m[3][1], m[2][2]), determinant),
               RDiv(Minor(m[1][2], m[3][1], m[3][2], m[1][1]), determinant),
               RDiv(Minor(m[1][1], m[2][2], m[2][1], m[1][2]), determinant) >> >>
try_3x3_inverse(mat) ==
    let(mat, LAMBDA m :
    let(RAdd(RSub(RMul(m[1][1], Minor(m[2][2], m[3][3], m[3][2], m[2][3])),
                  RMul(m[1][2], Minor(m[2][1], m[3][3], m[3][1], m[2][3]))),
             RMul(m[1][3], Minor(m[2][1], m[3][2], m[3][1], m[2][2]))),
        LAMBDA determinant :
            inverse_for_determinant(m, determinant)))

\* nalgebra UnitQuaternion::to_rotation_matrix.
to_rotation_matrix(q) ==
    LET w == q[1]
        i == q[2]
        j == q[3]
        k == q[4]
        ww == RMul(w, w)
        ii == RMul(i, i)
        jj == RMul(j, j)
        kk == RMul(k, k)
        ij == RMul(RMul(i, j), Two)
        wk == RMul(RMul(w, k), Two)
        wj == RMul(RMul(w, j), Two)
        ik == RMul(RMul(i, k), Two)
        jk == RMul(RMul(j, k), Two)
        wi == RMul(RMul(w, i), Two)
    IN  << << RSub(RSub(RAdd(ww, ii), jj), kk), RSub(ij, wk), RAdd(wj, ik) >>,
           << RAdd(wk, ij), RSub(RAdd(RSub(ww, ii), jj), kk), RSub(jk, wi) >>,
           << RSub(ik, wj), RAdd(wi, jk), RAdd(RSub(RSub(ww, ii), jj), kk) >> >>

\* nalgebra UnitQuaternion::new_normalize: q / q.norm().
new_normalize(q) ==
    let(RSqrt(QMagnitude2(q)), LAMBDA norm :
        <<RDiv(q[1], norm), RDiv(q[2], norm), RDiv(q[3], norm),
          RDiv(q[4], norm)>>)

\* The inverse inertia tensor of the body frame taken for that of the world.
world_inverse_inertia_of_body_frame(local_inertia_inv, orientation) ==
    local_inertia_inv

\* physics_engine.rs and collision_engine.rs carry the same function.
world_inverse_inertia(local_inertia_inv, orientation) ==
    let(to_rotation_matrix(orientation), LAMBDA body_to_world :
    let(to_rotation_matrix(QConj(orientation)), LAMBDA world_to_body :
    let(M3Mul(local_inertia_inv, world_to_body), LAMBDA in_body :
        M3Mul(body_to_world, in_body))))

-----------------------------------------------------------------------------
(* physics::RigidBody and the stores *)

DynamicBodyState(position, orientation, velocity, angular_momentum) ==
    [position |-> position, orientation |-> orientation,
     velocity |-> velocity, angular_momentum |-> angular_momentum,
     acceleration |-> VZero]

\* RigidBody::Dynamic(DynamicRigidBody { state, prev_state, mass, .. })
Dynamic(state, mass, inv_inertia_body) ==
    [kind |-> "Dynamic", state |-> state, prev_state |-> state,
     mass |-> mass, inv_inertia_body |-> inv_inertia_body]

\* RigidBody::Static(StaticRigidBody { position, orientation })
Static(position, orientation) ==
    [kind |-> "Static", position |-> position, orientation |-> orientation]

\* RigidBody::position() and RigidBody::orientation()
position(rb) ==
    IF rb.kind = "Dynamic" THEN rb.state.position ELSE rb.position
orientation(rb) ==
    IF rb.kind = "Dynamic" THEN rb.state.orientation ELSE rb.orientation

\* The inverse inertia tensor the blueprints give a sphere.
sphere_inv_inertia(mass, radius) ==
    try_3x3_inverse(
        M3Scale(RMul(RMul(RMul(Q(2, 5), mass), radius), radius), M3Identity))

\* Transform { position, orientation } twice: TransformPair { prev, current }.
TransformPair(position_, orientation_) ==
    [prev    |-> [position |-> position_, orientation |-> orientation_],
     current |-> [position |-> position_, orientation |-> orientation_]]

\* LinearComponentStorage: components is the sequence of (component, entity);
\* entity_map sends an entity to the index of its component.
entity_index(components, entity) ==
    CHOOSE i \in 1..Len(components) : components[i].entity = entity

has_component(components, entity) ==
    \E i \in 1..Len(components) : components[i].entity = entity

lookup_component_for_entity(components, entity) ==
    components[entity_index(components, entity)].rb

set_component_for_entity(components, entity, component) ==
    IF has_component(components, entity)
    THEN [components EXCEPT ![entity_index(components, entity)] =
            [rb |-> component, entity |-> entity]]
    ELSE Append(components, [rb |-> component, entity |-> entity])

-----------------------------------------------------------------------------
(* physics::PhysicsEngine *)

\* const G.  The masses of the model are expressed in the unit of mass in
\* which the gravitational constant is 1 (about 1.5e10 kg); this rescales
\* every momentum by the same factor and leaves the code's formulas as they
\* are.
G == One

\* PhysicsEngine::new
PhysicsEngineNew ==
    [x |-> <<>>, v |-> <<>>, a |-> <<>>, a_next |-> <<>>, m |-> <<>>]

\* A Vec holds values: the elements of a sequence that a loop or an iterator
\* builds are computed when it is built.
Vec(elements) == elements \o <<>>

\* Vec::resize
Resize(vec, n, value) ==
    Vec([i \in 1..n |-> IF i <= Len(vec) THEN vec[i] ELSE value])

\* The components the integrator works on: the integrator for the Static
\* variant is not part of the sources, and a static body is never mutated by
\* the integrator.
integrated(rigid_bodies) ==
    SelectSeq(rigid_bodies, LAMBDA c : c.rb.kind = "Dynamic")

update_body_from_transform(c, pair) ==
    IF c.rb.kind = "Dynamic"
    THEN [c EXCEPT
            !.rb.state.position = pair.current.position,
            !.rb.state.orientation = new_normalize(pair.current.orientation),
            !.rb.prev_state.position = pair.prev.position,
            !.rb.prev_state.orientation = new_normalize(pair.prev.orientation)]
    ELSE c

update_bodies_from_transforms(bodies, transforms) ==
    Vec([i \in 1..Len(bodies) |->
            update_body_from_transform(bodies[i], transforms[bodies[i].entity])])

populate_buffers(pe, rigid_bodies) ==
    LET rbs == integrated(rigid_bodies)
        n   == Len(rbs)
    IN  [x      |-> Vec([i \in 1..n |-> rbs[i].rb.state.position]),
         v      |-> Vec([i \in 1..n |-> rbs[i].rb.state.velocity]),
         a      |-> Vec([i \in 1..n |-> rbs[i].rb.state.acceleration]),
         a_next |-> Resize(pe.a_next, n, VZero),
         m      |-> Vec([i \in 1..n |-> rbs[i].rb.mass])]

\* The body of the inner loop of compute_acceleration with the second body
\* pushed away from the first one instead of pulled towards it.
gravity_between_repelling(a_next, m, x, i, j) ==
    let(VSub(x[j], x[i]), LAMBDA r :
    let(magnitude2(r), LAMBDA r2 :
    let(RDiv(RMul(RMul(G, m[i]), m[j]), r2), LAMBDA f :
        [a_next EXCEPT
            ![i] = VAdd(@, VScale(RDiv(f, m[i]), r)),
            ![j] = VAdd(@, VScale(RDiv(f, m[j]), r))])))

\* The body of the inner loop of compute_acceleration.
gravity_between(a_next, m, x, i, j) ==
    let(VSub(x[j], x[i]), LAMBDA r :
    let(magnitude2(r), LAMBDA r2 :
    let(RDiv(RMul(RMul(G, m[i]), m[j]), r2), LAMBDA f :
        [a_next EXCEPT
            ![i] = VAdd(@, VScale(RDiv(f, m[i]), r)),
            ![j] = VAdd(@, VScale(RNeg(RDiv(f, m[j])), r))])))

\* for i in 0 .. num_objects { for j in (i + 1) .. num_objects { .. } }
RECURSIVE gravity_loop(_, _, _, _, _)
gravity_loop(a_next, m, x, i, j) ==
    IF i > Len(a_next) THEN a_next
    ELSE IF j > Len(a_next) THEN gravity_loop(a_next, m, x, i + 1, i + 2)
    ELSE let(gravity_between(a_next, m, x, i, j), LAMBDA updated :
             gravity_loop(updated, m, x, i, j + 1))

\* compute_acceleration without the reset of a_next before the summation.
compute_acceleration_accumulating(pe) ==
    [pe EXCEPT !.a_next = gravity_loop(pe.a_next, pe.m, pe.x, 1, 2)]

compute_acceleration(pe) ==
    [pe EXCEPT !.a_next =
        gravity_loop(Vec([i \in 1..Len(pe.a_next) |-> VZero]),
                     pe.m, pe.x, 1, 2)]

update_positions(pe, dt) ==
    [pe EXCEPT !.x =
        Vec([i \in 1..Len(pe.x) |->
                VAdd(pe.x[i],
                     VAdd(VScale(dt, pe.v[i]),
                          VScale(RMul(RMul(Half, dt), dt), pe.a[i])))])]

update_velocities(pe, dt) ==
    [pe EXCEPT !.v =
        Vec([i \in 1..Len(pe.v) |->
                VAdd(pe.v[i],
                     VScale(RMul(Half, dt), VAdd(pe.a[i], pe.a_next[i])))])]

integrate_linear_motion(pe, dt) ==
    let(update_positions(pe, dt), LAMBDA moved :
    let(compute_acceleration(moved), LAMBDA accelerated :
        update_velocities(accelerated, dt)))

\* orientation + 0.5 * dt * angular_velocity_quat * orientation
orientation_update(orientation_, dt, angular_velocity) ==
    QAdd(orientation_,
         QMul(QScale(RMul(Half, dt),
                     <<Zero, angular_velocity[1], angular_velocity[2],
                       angular_velocity[3]>>),
              orientation_))

angular_velocity_of(rb) ==
    let(world_inverse_inertia(rb.inv_inertia_body, rb.state.orientation),
        LAMBDA inverse_world_inertia :
            M3Vec(inverse_world_inertia, rb.state.angular_momentum))

\* The body of the loop of integrate_angular_motion that stores the updated
\* quaternion as it is.
integrate_angular_motion_of_unnormalized(c, dt) ==
    IF c.rb.kind = "Dynamic"
    THEN let(angular_velocity_of(c.rb), LAMBDA angular_velocity :
         let(orientation_update(c.rb.state.orientation, dt, angular_velocity),
             LAMBDA new_orientation :
                [c EXCEPT
                    !.rb.prev_state.orientation = c.rb.state.orientation,
                    !.rb.state.orientation = new_orientation]))
    ELSE c

\* The body of the loop of integrate_angular_motion that stores the angular
\* velocity in place of the angular momentum.
integrate_angular_motion_of_storing_velocity(c, dt) ==
    IF c.rb.kind = "Dynamic"
    THEN let(angular_velocity_of(c.rb), LAMBDA angular_velocity :
         let(orientation_update(c.rb.state.orientation, dt, angular_velocity),
             LAMBDA new_orientation :
                [c EXCEPT
                    !.rb.prev_state.orientation = c.rb.state.orientation,
                    !.rb.state.orientation = new_normalize(new_orientation),
                    !.rb.state.angular_momentum = angular_velocity]))
    ELSE c

\* The body of the loop of integrate_angular_motion.
integrate_angular_motion_of(c, dt) ==
    IF c.rb.kind = "Dynamic"
    THEN let(angular_velocity_of(c.rb), LAMBDA angular_velocity :
         let(orientation_update(c.rb.state.orientation, dt, angular_velocity),
             LAMBDA new_orientation :
                [c EXCEPT
                    !.rb.prev_state.orientation = c.rb.state.orientation,
                    !.rb.state.orientation = new_normalize(new_orientation)]))
    ELSE c

integrate_angular_motion(dt, rigid_bodies) ==
    Vec([i \in 1..Len(rigid_bodies) |->
            integrate_angular_motion_of(rigid_bodies[i], dt)])

\* The index in the buffers of the i-th component.
buffer_index(rigid_bodies, i) ==
    Len(integrated(SubSeq(rigid_bodies, 1, i)))

sync_component_from_buffers(c, pe, k) ==
    IF c.rb.kind = "Dynamic"
    THEN [c EXCEPT
            !.rb.prev_state.position = c.rb.state.position,
            !.rb.state.position = pe.x[k],
            !.rb.prev_state.velocity = c.rb.state.velocity,
            !.rb.state.velocity = pe.v[k],
            !.rb.prev_state.acceleration = c.rb.state.acceleration,
            !.rb.state.acceleration = pe.a_next[k],
            !.rb.mass = pe.m[k]]
    ELSE c

sync_components_from_buffers(pe, rigid_bodies) ==
    Vec([i \in 1..Len(rigid_bodies) |->
            sync_component_from_buffers(rigid_bodies[i], pe,
                                        buffer_index(rigid_bodies, i))])

update_transform_from_body(pair, rb) ==
    IF rb.kind = "Dynamic"
    THEN [pair EXCEPT
            !.current.position = rb.state.position,
            !.current.orientation = rb.state.orientation,
            !.prev.position = rb.prev_state.position,
            !.prev.orientation = rb.prev_state.orientation]
    ELSE pair

update_transforms_from_bodies(bodies, transforms) ==
    Array([e \in DOMAIN transforms |->
        IF has_component(bodies, e)
        THEN update_transform_from_body(transforms[e],
                                        lookup_component_for_entity(bodies, e))
        ELSE transforms[e]])

\* The state simulate works on, and its result.
SimState(rigid_bodies, transforms, pe, panicked) ==
    [rigid_bodies |-> rigid_bodies, transforms |-> transforms,
     physics_engine |-> pe, panicked |-> panicked]

\* Each statement of simulate works on the values the statements before it
\* have left: a statement's result is bound before the next one is applied.
simulate_sync(dt, rigid_bodies, transforms, pe) ==
    let(sync_components_from_buffers(pe, rigid_bodies), LAMBDA synced :
        SimState(synced, update_transforms_from_bodies(synced, transforms),
                 pe, FALSE))

simulate_integrate(dt, rigid_bodies, transforms, pe) ==
    let(integrate_linear_motion(pe, dt), LAMBDA moved :
    let(integrate_angular_motion(dt, rigid_bodies), LAMBDA turned :
        simulate_sync(dt, turned, transforms, moved)))

simulate_populate(dt, rigid_bodies, transforms, pe) ==
    let(populate_buffers(pe, rigid_bodies), LAMBDA buffers :
        simulate_integrate(dt, rigid_bodies, transforms, buffers))

\* simulate with the assertion on dt placed after the work.
simulate_assert_last(dt, st) ==
    let(update_bodies_from_transforms(st.rigid_bodies, st.transforms),
        LAMBDA bodies :
    let(simulate_populate(dt, bodies, st.transforms, st.physics_engine),
        LAMBDA done :
            IF RLe(Zero, dt) THEN done ELSE [done EXCEPT !.panicked = TRUE]))

simulate(dt, st) ==
    IF ~RLe(Zero, dt) THEN [st EXCEPT !.panicked = TRUE]
    ELSE let(update_bodies_from_transforms(st.rigid_bodies, st.transforms),
             LAMBDA bodies :
                simulate_populate(dt, bodies, st.transforms,
                                  st.physics_engine))

-----------------------------------------------------------------------------
(* physics::CollisionEngine *)

\* ncollide::query::Contact { world1, world2, normal, depth } between the
\* collision objects of entity1 and entity2, as world.contacts() yields it.
Contact(entity1, entity2, world1, world2, normal, depth) ==
    [entity1 |-> entity1, entity2 |-> entity2,
     contact |-> [world1 |-> world1, world2 |-> world2, normal |-> normal,
                  depth |-> depth]]

\* itertools group_by: the runs of consecutive elements with the same key
\* (entity1, entity2), each as the sequence of its elements.
RECURSIVE group_by(_, _)
group_by(contacts, groups) ==
    IF contacts = <<>> THEN groups
    ELSE IF /\ groups # <<>>
            /\ groups[Len(groups)][1].entity1 = Head(contacts).entity1
            /\ groups[Len(groups)][1].entity2 = Head(contacts).entity2
    THEN group_by(Tail(contacts),
                  [groups EXCEPT ![Len(groups)] = Append(@, Head(contacts))])
    ELSE group_by(Tail(contacts), Append(groups, <<Head(contacts)>>))

\* The first element of the group instead of the one of greatest depth.
max_by_key_first(contacts_for_pair) ==
    contacts_for_pair[1].contact

\* Iterator::max_by_key on the depth: the last of the elements that are
\* equally maximum.
max_by_key(contacts_for_pair) ==
    contacts_for_pair[
        CHOOSE i \in 1..Len(contacts_for_pair) :
            \A j \in 1..Len(contacts_for_pair) :
                /\ RLe(contacts_for_pair[j].contact.depth,
                       contacts_for_pair[i].contact.depth)
                /\ j > i => RLt(contacts_for_pair[j].contact.depth,
                                contacts_for_pair[i].contact.depth)].contact

significant_contact_of(contacts_for_pair) ==
    [entity1 |-> contacts_for_pair[1].entity1,
     entity2 |-> contacts_for_pair[1].entity2,
     contact |-> max_by_key(contacts_for_pair)]

\* let significant_contacts: Vec<_> = self.world.contacts().group_by(..).map(..)
significant_contacts_of(groups) ==
    Vec([g \in 1..Len(groups) |-> significant_contact_of(groups[g])])

significant_contacts(contacts) ==
    significant_contacts_of(group_by(contacts, <<>>))

\* set_component_for_entity for entity1, then for entity2.
set_pair(bodies, entity1, entity2, pair) ==
    set_component_for_entity(
        set_component_for_entity(bodies, entity1, pair[1]), entity2, pair[2])

\* The match of resolve_interpenetrations on (rb1, rb2) with the dynamic body
\* moved along the normal whichever entity of the contact it is.
interpenetration_match_one_sign(bodies, entity1, entity2, rb1, rb2, contact) ==
    CASE rb1.kind = "Dynamic" /\ rb2.kind = "Dynamic" ->
            let(RAdd(rb1.mass, rb2.mass), LAMBDA total_mass :
            let2(RMul(RDiv(rb2.mass, total_mass), contact.depth),
                 RMul(RDiv(rb1.mass, total_mass), contact.depth),
                 LAMBDA obj1_move_dist, obj2_move_dist :
            let2([rb1 EXCEPT !.state.position =
                    VSub(@, VScale(obj1_move_dist, contact.normal))],
                 [rb2 EXCEPT !.state.position =
                    VAdd(@, VScale(obj2_move_dist, contact.normal))],
                 LAMBDA moved1, moved2 :
                    set_pair(bodies, entity1, entity2, <<moved1, moved2>>))))
      [] rb1.kind = "Static" /\ rb2.kind = "Dynamic" ->
            set_component_for_entity(bodies, entity2,
                [rb2 EXCEPT !.state.position =
                    VAdd(@, VScale(contact.depth, contact.normal))])
      [] rb1.kind = "Dynamic" /\ rb2.kind = "Static" ->
            set_component_for_entity(bodies, entity1,
                [rb1 EXCEPT !.state.position =
                    VAdd(@, VScale(contact.depth, contact.normal))])
      [] OTHER -> bodies

\* The match of resolve_interpenetrations on (rb1, rb2) with each dynamic body
\* of a dynamic pair moved by its own share of the total mass.
interpenetration_match_own_share(bodies, entity1, entity2, rb1, rb2, contact) ==
    CASE rb1.kind = "Dynamic" /\ rb2.kind = "Dynamic" ->
            let(RAdd(rb1.mass, rb2.mass), LAMBDA total_mass :
            let2(RMul(RDiv(rb1.mass, total_mass), contact.depth),
                 RMul(RDiv(rb2.mass, total_mass), contact.depth),
                 LAMBDA obj1_move_dist, obj2_move_dist :
            let2([rb1 EXCEPT !.state.position =
                    VSub(@, VScale(obj1_move_dist, contact.normal))],
                 [rb2 EXCEPT !.state.position =
                    VAdd(@, VScale(obj2_move_dist, contact.normal))],
                 LAMBDA moved1, moved2 :
                    set_pair(bodies, entity1, entity2, <<moved1, moved2>>))))
      [] rb1.kind = "Static" /\ rb2.kind = "Dynamic" ->
            set_component_for_entity(bodies, entity2,
                [rb2 EXCEPT !.state.position =
                    VAdd(@, VScale(contact.depth, contact.normal))])
      [] rb1.kind = "Dynamic" /\ rb2.kind = "Static" ->
            set_component_for_entity(bodies, entity1,
                [rb1 EXCEPT !.state.position =
                    VSub(@, VScale(contact.depth, contact.normal))])
      [] OTHER -> bodies

\* The match of resolve_interpenetrations on (rb1, rb2).
interpenetration_match(bodies, entity1, entity2, rb1, rb2, contact) ==
    CASE rb1.kind = "Dynamic" /\ rb2.kind = "Dynamic" ->
            let(RAdd(rb1.mass, rb2.mass), LAMBDA total_mass :
            let2(RMul(RDiv(rb2.mass, total_mass), contact.depth),
                 RMul(RDiv(rb1.mass, total_mass), contact.depth),
                 LAMBDA obj1_move_dist, obj2_move_dist :
            let2([rb1 EXCEPT !.state.position =
                    VSub(@, VScale(obj1_move_dist, contact.normal))],
                 [rb2 EXCEPT !.state.position =
                    VAdd(@, VScale(obj2_move_dist, contact.normal))],
                 LAMBDA moved1, moved2 :
                    set_pair(bodies, entity1, entity2, <<moved1, moved2>>))))
      [] rb1.kind = "Static" /\ rb2.kind = "Dynamic" ->
            set_component_for_entity(bodies, entity2,
                [rb2 EXCEPT !.state.position =
                    VAdd(@, VScale(contact.depth, contact.normal))])
      [] rb1.kind = "Dynamic" /\ rb2.kind = "Static" ->
            set_component_for_entity(bodies, entity1,
                [rb1 EXCEPT !.state.position =
                    VSub(@, VScale(contact.depth, contact.normal))])
      [] OTHER -> bodies

\* The body of the loop of resolve_interpenetrations.
resolve_interpenetration(bodies, entity1, entity2, contact) ==
    IF has_component(bodies, entity1) /\ has_component(bodies, entity2)
    THEN let2(lookup_component_for_entity(bodies, entity1),
              lookup_component_for_entity(bodies, entity2), LAMBDA rb1, rb2 :
            interpenetration_match(bodies, entity1, entity2, rb1, rb2,
                                   contact))
    ELSE bodies

RECURSIVE resolve_interpenetrations_loop(_, _)
resolve_interpenetrations_loop(bodies, significant) ==
    IF significant = <<>> THEN bodies
    ELSE let(resolve_interpenetration(bodies, Head(significant).entity1,
                Head(significant).entity2, Head(significant).contact),
             LAMBDA resolved :
                resolve_interpenetrations_loop(resolved, Tail(significant)))

resolve_interpenetrations(bodies, contacts) ==
    let(significant_contacts(contacts), LAMBDA significant :
        resolve_interpenetrations_loop(bodies, significant))

restitution == One

\* The reaction impulse of a collision of restitution 0.
dynamic_dynamic_impulse_inelastic(rb1, rb2, n, r1, r2, i_inv1, i_inv2, v_separating) ==
    let2(VCross(M3Vec(i_inv1, VCross(r1, n)), r1),
         VCross(M3Vec(i_inv2, VCross(r2, n)), r2),
         LAMBDA angular_denominator1, angular_denominator2 :
    let2(RAdd(RDiv(One, rb1.mass), RDiv(One, rb2.mass)),
         VDot(VAdd(angular_denominator1, angular_denominator2), n),
         LAMBDA linear_denominator, angular_denominator :
    let(RMul(RNeg(RAdd(One, Zero)), v_separating), LAMBDA numerator :
        RDiv(numerator, RAdd(linear_denominator, angular_denominator)))))

\* resolve_dynamic_dynamic_velocity: the reaction impulse j_r.
dynamic_dynamic_impulse(rb1, rb2, n, r1, r2, i_inv1, i_inv2, v_separating) ==
    let2(VCross(M3Vec(i_inv1, VCross(r1, n)), r1),
         VCross(M3Vec(i_inv2, VCross(r2, n)), r2),
         LAMBDA angular_denominator1, angular_denominator2 :
    let2(RAdd(RDiv(One, rb1.mass), RDiv(One, rb2.mass)),
         VDot(VAdd(angular_denominator1, angular_denominator2), n),
         LAMBDA linear_denominator, angular_denominator :
    let(RMul(RNeg(RAdd(One, restitution)), v_separating), LAMBDA numerator :
        RDiv(numerator, RAdd(linear_denominator, angular_denominator)))))

\* The post-collision state with the impulse divided by the mass of the
\* first body for both bodies.
dynamic_dynamic_post_first_mass(rb1, rb2, n, r1, r2, i_inv1, i_inv2, w1, w2, j_r) ==
    let2(VSub(rb1.state.velocity, VScale(RDiv(j_r, rb1.mass), n)),
         VAdd(rb2.state.velocity, VScale(RDiv(j_r, rb1.mass), n)),
         LAMBDA v1_post, v2_post :
    let2(VSub(w1, M3Vec(M3Scale(j_r, i_inv1), VCross(r1, n))),
         VAdd(w2, M3Vec(M3Scale(j_r, i_inv2), VCross(r2, n))),
         LAMBDA w1_post, w2_post :
    let2(try_3x3_inverse(i_inv1), try_3x3_inverse(i_inv2),
         LAMBDA inertia1, inertia2 :
            << [rb1 EXCEPT
                  !.state.velocity = v1_post,
                  !.state.angular_momentum = M3Vec(inertia1, w1_post)],
               [rb2 EXCEPT
                  !.state.velocity = v2_post,
                  !.state.angular_momentum = M3Vec(inertia2, w2_post)] >>)))

\* resolve_dynamic_dynamic_velocity: the post-collision state for impulse j_r.
dynamic_dynamic_post(rb1, rb2, n, r1, r2, i_inv1, i_inv2, w1, w2, j_r) ==
    let2(VSub(rb1.state.velocity, VScale(RDiv(j_r, rb1.mass), n)),
         VAdd(rb2.state.velocity, VScale(RDiv(j_r, rb2.mass), n)),
         LAMBDA v1_post, v2_post :
    let2(VSub(w1, M3Vec(M3Scale(j_r, i_inv1), VCross(r1, n))),
         VAdd(w2, M3Vec(M3Scale(j_r, i_inv2), VCross(r2, n))),
         LAMBDA w1_post, w2_post :
    let2(try_3x3_inverse(i_inv1), try_3x3_inverse(i_inv2),
         LAMBDA inertia1, inertia2 :
            << [rb1 EXCEPT
                  !.state.velocity = v1_post,
                  !.state.angular_momentum = M3Vec(inertia1, w1_post)],
               [rb2 EXCEPT
                  !.state.velocity = v2_post,
                  !.state.angular_momentum = M3Vec(inertia2, w2_post)] >>)))

\* The pair (rb1, rb2) the function returns.
resolve_dynamic_dynamic_velocity(rb1, rb2, contact) ==
    let2(VSub(contact.world1, rb1.state.position),
         VSub(contact.world1, rb2.state.position), LAMBDA r1, r2 :
    let2(world_inverse_inertia(rb1.inv_inertia_body, rb1.state.orientation),
         world_inverse_inertia(rb2.inv_inertia_body, rb2.state.orientation),
         LAMBDA i_inv1, i_inv2 :
    let2(M3Vec(i_inv1, rb1.state.angular_momentum),
         M3Vec(i_inv2, rb2.state.angular_momentum), LAMBDA w1, w2 :
    let2(VAdd(rb1.state.velocity, VCross(w1, r1)),
         VAdd(rb2.state.velocity, VCross(w2, r2)), LAMBDA v_p1, v_p2 :
    let(VDot(VSub(v_p2, v_p1), contact.normal), LAMBDA v_separating :
        IF RLt(v_separating, Zero)
        THEN let(dynamic_dynamic_impulse(rb1, rb2, contact.normal, r1, r2,
                                         i_inv1, i_inv2, v_separating),
                 LAMBDA j_r :
                    dynamic_dynamic_post(rb1, rb2, contact.normal, r1, r2,
                                         i_inv1, i_inv2, w1, w2, j_r))
        ELSE <<rb1, rb2>>)))))

\* resolve_static_dynamic_velocity: the reaction impulse j_r.
static_dynamic_impulse(rb, n, r2, i_inv2, v_separating) ==
    let(VCross(M3Vec(i_inv2, VCross(r2, n)), r2),
        LAMBDA angular_denominator2 :
    let2(RDiv(One, rb.mass), VDot(angular_denominator2, n),
         LAMBDA linear_denominator, angular_denominator :
    let(RMul(RNeg(RAdd(One, restitution)), v_separating), LAMBDA numerator :
        RDiv(numerator, RAdd(linear_denominator, angular_denominator)))))

\* resolve_static_dynamic_velocity: the post-collision state for impulse j_r.
static_dynamic_post(rb, n, r2, i_inv2, w2, j_r) ==
    let2(VAdd(rb.state.velocity, VScale(RDiv(j_r, rb.mass), n)),
         VAdd(w2, M3Vec(M3Scale(j_r, i_inv2), VCross(r2, n))),
         LAMBDA v2_post, w2_post :
    let(try_3x3_inverse(i_inv2), LAMBDA inertia2 :
        [rb EXCEPT
            !.state.velocity = v2_post,
            !.state.angular_momentum = M3Vec(inertia2, w2_post)]))

\* The impulse applied whatever the sign of the separating velocity.
resolve_static_dynamic_velocity_always(rb, point, normal) ==
    let2(VSub(point, rb.state.position),
         world_inverse_inertia(rb.inv_inertia_body, rb.state.orientation),
         LAMBDA r2, i_inv2 :
    let(M3Vec(i_inv2, rb.state.angular_momentum), LAMBDA w2 :
    let(VAdd(rb.state.velocity, VCross(w2, r2)), LAMBDA v_p2 :
    let(VDot(v_p2, normal), LAMBDA v_separating :
    let(static_dynamic_impulse(rb, normal, r2, i_inv2, v_separating),
        LAMBDA j_r : static_dynamic_post(rb, normal, r2, i_inv2, w2, j_r))))))

resolve_static_dynamic_velocity(rb, point, normal) ==
    let2(VSub(point, rb.state.position),
         world_inverse_inertia(rb.inv_inertia_body, rb.state.orientation),
         LAMBDA r2, i_inv2 :
    let(M3Vec(i_inv2, rb.state.angular_momentum), LAMBDA w2 :
    let(VAdd(rb.state.velocity, VCross(w2, r2)), LAMBDA v_p2 :
    let(VDot(v_p2, normal), LAMBDA v_separating :
        IF RLt(v_separating, Zero)
        THEN let(static_dynamic_impulse(rb, normal, r2, i_inv2, v_separating),
                 LAMBDA j_r :
                    static_dynamic_post(rb, normal, r2, i_inv2, w2, j_r))
        ELSE rb))))

\* The match of resolve_velocities on (rb1, rb2) with the normal and the point
\* of the contact taken as they are when the dynamic body comes first.
velocity_match_unflipped(bodies, entity1, entity2, rb1, rb2, contact) ==
    CASE rb1.kind = "Dynamic" /\ rb2.kind = "Dynamic" ->
            let(resolve_dynamic_dynamic_velocity(rb1, rb2, contact),
                LAMBDA pair : set_pair(bodies, entity1, entity2, pair))
      [] rb1.kind = "Static" /\ rb2.kind = "Dynamic" ->
            let(resolve_static_dynamic_velocity(rb2, contact.world1,
                                                contact.normal),
                LAMBDA rb : set_component_for_entity(bodies, entity2, rb))
      [] rb1.kind = "Dynamic" /\ rb2.kind = "Static" ->
            let(resolve_static_dynamic_velocity(rb1, contact.world1,
                                                contact.normal),
                LAMBDA rb : set_component_for_entity(bodies, entity1, rb))
      [] OTHER -> bodies

\* The match of resolve_velocities on (rb1, rb2).
velocity_match(bodies, entity1, entity2, rb1, rb2, contact) ==
    CASE rb1.kind = "Dynamic" /\ rb2.kind = "Dynamic" ->
            let(resolve_dynamic_dynamic_velocity(rb1, rb2, contact),
                LAMBDA pair : set_pair(bodies, entity1, entity2, pair))
      [] rb1.kind = "Static" /\ rb2.kind = "Dynamic" ->
            let(resolve_static_dynamic_velocity(rb2, contact.world1,
                                                contact.normal),
                LAMBDA rb : set_component_for_entity(bodies, entity2, rb))
      [] rb1.kind = "Dynamic" /\ rb2.kind = "Static" ->
            let(resolve_static_dynamic_velocity(rb1, contact.world2,
                                                VNeg(contact.normal)),
                LAMBDA rb : set_component_for_entity(bodies, entity1, rb))
      [] OTHER -> bodies

\* The body of the loop of resolve_velocities.
resolve_velocity(bodies, entity1, entity2, contact) ==
    IF has_component(bodies, entity1) /\ has_component(bodies, entity2)
    THEN let2(lookup_component_for_entity(bodies, entity1),
              lookup_component_for_entity(bodies, entity2), LAMBDA rb1, rb2 :
            velocity_match(bodies, entity1, entity2, rb1, rb2, contact))
    ELSE bodies

RECURSIVE resolve_velocities_loop(_, _)
resolve_velocities_loop(bodies, significant) ==
    IF significant = <<>> THEN bodies
    ELSE let(resolve_velocity(bodies, Head(significant).entity1,
                Head(significant).entity2, Head(significant).contact),
             LAMBDA resolved :
                resolve_velocities_loop(resolved, Tail(significant)))

resolve_velocities(bodies, contacts) ==
    let(significant_contacts(contacts), LAMBDA significant :
        resolve_velocities_loop(bodies, significant))

\* sync_shapes_and_positions: the position of each collision object, as
\* deferred_add or deferred_set_position hands it to the world.  Every entity
\* of the model has a sphere of center 0 as its collision model.
sync_shapes_and_positions(bodies) ==
    Array([e \in {bodies[i].entity : i \in 1..Len(bodies)} |->
        [translation |-> position(lookup_component_for_entity(bodies, e)),
         rotation    |-> QMul(orientation(lookup_component_for_entity(bodies, e)),
                              QIdentity)]])

-----------------------------------------------------------------------------
(* Narrow phase: the state of one detection of a pair of shapes, in both    *)
(* argument orders.                                                         *)

VARIABLES
    npA,        \* the first shape
    npB,        \* the second shape
    npAB,       \* detect(npA, npB)
    npBA,       \* detect(npB, npA), where the code has a function for it
    npPc        \* "input" before the detection, "done" after it

npVars == <<npA, npB, npAB, npBA, npPc>>

VARIABLES
    rigid_bodies,       \* LinearComponentStorage<RigidBody>: its components
    transforms,         \* TransformStore: entity -> TransformPair
    physics_engine,     \* the buffers x, v, a, a_next, m of PhysicsEngine
    panicked,           \* an assertion has aborted the process
    dt_arg,             \* the dt of the latest call of simulate
    steps,              \* the number of calls of simulate
    initial_momentum,   \* the total linear momentum before the first call
    overlapped          \* two bodies have been at the same position

simVars == <<rigid_bodies, transforms, physics_engine, panicked, dt_arg,
             steps, initial_momentum, overlapped>>

VARIABLES
    time_keeper,        \* TimeKeeper: accumulated, produced, consumed
    pc,                 \* the statement Engine::run is at
    should_continue,    \* Engine::should_continue
    world,              \* CollisionEngine::world: positions and contacts
    phase_log,          \* the phases the current tick has run, in order
    ticks,              \* the number of fixed ticks begun
    frames              \* the number of frames produced

hostVars == <<time_keeper, pc, should_continue, world, phase_log, ticks,
              frames>>

VARIABLES
    rvIn,       \* the rigid bodies of entities 1 and 2 before the resolution
    rvContact,  \* the significant contact of the pair (1, 2)
    rvOut,      \* the rigid bodies after the resolution
    rvPc        \* "input" before the resolution, "done" after it

rvVars == <<rvIn, rvContact, rvOut, rvPc>>

VARIABLES
    entity_manager,     \* EntityManager: next, entities
    created,            \* the ids create has returned, in order
    destroyed,          \* the created ids destroy has been called with
    components,         \* PhysicsComponentStore: its vectors and entity_map
    registrations,      \* the calls of set_component_properties, in order
    store_panicked      \* a call of set_component_properties has aborted

storeVars == <<entity_manager, created, destroyed, components, registrations,
               store_panicked>>

vars == <<npVars, simVars, hostVars, rvVars, storeVars>>

NotRun == [some |-> FALSE, run |-> FALSE]

Qz == <<Q(4, 5), Zero, Zero, Q(3, 5)>>

Qy == <<Q(4, 5), Zero, Q(3, 5), Zero>>

Qx == <<Q(4, 5), Q(3, 5), Zero, Zero>>

SphereInputs ==
    {Sphere(r, c) :
        r \in {R(1), Q(3, 2)},
        c \in { V3(0, 0, 0), <<Q(3, 2), Zero, Zero>>, V3(2, 0, 0),
                V3(3, 0, 0), V3(0, 0, 2), V3(0, 3, 4) }}

CuboidInputs ==
    {Cuboid(c, h, q) :
        c \in { V3(0, 0, 0), <<Q(5, 4), Zero, Zero>>, <<Q(3, 2), Zero, Zero>>,
                V3(5, 0, 0), <<Q(3, 2), R(1), Zero>> },
        h \in { <<Half, Half, Half>>, V3(1, 1, 1) },
        q \in {QIdentity, Qz}}

\* Every square root the detection of (a, b) takes is rational.
NarrowRepresentable(a, b) ==
    CASE a.type = "Sphere" /\ b.type = "Sphere" ->
            HasRoot(magnitude2(VSub(b.center, a.center)))
      [] a.type = "Sphere" /\ b.type = "Cuboid" ->
            HasRoot(magnitude2(VSub(closest_interior_point(b, a.center), a.center)))
      [] OTHER -> TRUE

\* Detection depends on the two centers through their difference only: the
\* first cuboid of a pair of cuboids is taken at two of the centers.
FirstCuboidInputs ==
    {c \in CuboidInputs : c.center \in {V3(0, 0, 0), <<Q(3, 2), R(1), Zero>>}}

\* Pairs of cuboids turned about different axes: an edge of the one faces an
\* edge of the other.
TurnedCuboidPairs ==
    { <<Cuboid(VZero, V3(1, 1, 1), Qx), Cuboid(V3(1, -1, 2), V3(1, 1, 1), Qy)>>,
      <<Cuboid(VZero, V3(1, 1, 1), Qx), Cuboid(V3(1, -1, 4), V3(1, 1, 1), Qy)>>,
      <<Cuboid(VZero, <<Half, Half, Half>>, Qx),
        Cuboid(V3(0, 0, -1), <<Half, Half, Half>>, Qy)>>,
      <<Cuboid(VZero, V3(1, 1, 1), Qy),
        Cuboid(<<Half, Q(3, 2), Q(-3, 2)>>, <<Half, Half, Half>>, Qz)>> }

NarrowInit ==
    /\ \/ /\ npA \in SphereInputs \cup FirstCuboidInputs
          /\ npB \in SphereInputs \cup CuboidInputs
          /\ npA.type = "Cuboid" => npB.type = "Cuboid"
       \/ \E pair \in TurnedCuboidPairs : npA = pair[1] /\ npB = pair[2]
    /\ NarrowRepresentable(npA, npB)
    /\ npAB = NotRun
    /\ npBA = NotRun
    /\ npPc = "input"

DetectSphereSphere ==
    /\ npPc = "input"
    /\ npA.type = "Sphere" /\ npB.type = "Sphere"
    /\ npAB' = contact_sphere_sphere(npA, npB)
    /\ npBA' = contact_sphere_sphere(npB, npA)
    /\ npPc' = "done"
    /\ UNCHANGED <<npA, npB>>

DetectSphereCuboid ==
    /\ npPc = "input"
    /\ npA.type = "Sphere" /\ npB.type = "Cuboid"
    /\ npAB' = contact_sphere_cuboid(npA, npB)
    /\ npBA' = NotRun
    /\ npPc' = "done"
    /\ UNCHANGED <<npA, npB>>

DetectCuboidCuboid ==
    /\ npPc = "input"
    /\ npA.type = "Cuboid" /\ npB.type = "Cuboid"
    /\ npAB' = contact_cuboid_cuboid(npA, npB)
    /\ npBA' = contact_cuboid_cuboid(npB, npA)
    /\ npPc' = "done"
    /\ UNCHANGED <<npA, npB>>

NarrowNext ==
    \/ DetectSphereSphere /\ UNCHANGED <<simVars, hostVars, rvVars, storeVars>>
    \/ DetectSphereCuboid /\ UNCHANGED <<simVars, hostVars, rvVars, storeVars>>
    \/ DetectCuboidCuboid /\ UNCHANGED <<simVars, hostVars, rvVars, storeVars>>

\* No detection is under way.
NarrowIdle ==
    /\ npA = Sphere(R(1), V3(0, 0, 0))
    /\ npB = Sphere(R(1), V3(0, 0, 0))
    /\ npAB = NotRun
    /\ npBA = NotRun
    /\ npPc = "idle"

-----------------------------------------------------------------------------
(* The integrator, called with any dt *)

MaxSteps == 2

\* The dts simulate is called with.
SimTimesteps == {R(-1), Zero, R(1), R(2)}

\* Where entity e starts.
StartPosition(e) ==
    CASE e = 1 -> V3(0, 0, 0) [] e = 2 -> V3(2, 0, 0) [] OTHER -> V3(-2, 0, 0)

\* blueprints::sphere for a sphere of radius 1, then given a velocity and an
\* angular momentum.
SphereBody(e, mass, velocity, angular_momentum) ==
    [rb |-> Dynamic(DynamicBodyState(StartPosition(e), QIdentity, velocity,
                                     angular_momentum),
                    mass, sphere_inv_inertia(mass, R(1))),
     entity |-> e]

StartTransforms(bodies) ==
    Array([e \in {bodies[i].entity : i \in 1..Len(bodies)} |->
        TransformPair(position(lookup_component_for_entity(bodies, e)),
                      orientation(lookup_component_for_entity(bodies, e)))])

SimBodies ==
    {<<SphereBody(1, m1, v1, l1), SphereBody(2, R(1), VZero, VZero)>> :
        m1 \in {R(1), R(2)}, v1 \in {VZero, V3(1, 0, 0)},
        l1 \in {VZero, <<Q(3, 5), Zero, Zero>>}}
    \cup
    {<<SphereBody(1, m1, v1, VZero), SphereBody(2, R(1), VZero, VZero),
       SphereBody(3, R(2), VZero, VZero)>> :
        m1 \in {R(1), R(2)}, v1 \in {VZero, V3(1, 0, 0)}}

RECURSIVE Momentum(_)
Momentum(bodies) ==
    IF bodies = <<>> THEN VZero
    ELSE VAdd(IF Head(bodies).rb.kind = "Dynamic"
              THEN VScale(Head(bodies).rb.mass, Head(bodies).rb.state.velocity)
              ELSE VZero,
              Momentum(Tail(bodies)))

Coincide(bodies) ==
    \E i, j \in 1..Len(bodies) :
        i < j /\ position(bodies[i].rb) = position(bodies[j].rb)

\* The numbers of the model are ratios of 32-bit integers: simulate is called
\* in the states whose numerators and denominators are at most MaxNumber,
\* and a tick of the host loop, with its smaller dt, in those where they are
\* at most MaxTickNumber.
MaxNumber == 100

MaxTickNumber == 1000

SmallVector(vec, limit) ==
    \A k \in 1..3 : Abs(vec[k][1]) <= limit /\ vec[k][2] <= limit

SmallBodies(limit) ==
    \A i \in 1..Len(rigid_bodies) :
        rigid_bodies[i].rb.kind = "Dynamic" =>
            /\ SmallVector(rigid_bodies[i].rb.state.position, limit)
            /\ SmallVector(rigid_bodies[i].rb.state.velocity, limit)
            /\ SmallVector(rigid_bodies[i].rb.state.acceleration, limit)
            /\ SmallVector(rigid_bodies[i].rb.state.angular_momentum, limit)
            /\ SmallVector(QVec(rigid_bodies[i].rb.state.orientation), limit)

\* Every square root the call takes is rational.
SimRepresentable(dt) ==
    /\ \A e \in DOMAIN transforms :
          /\ HasRoot(QMagnitude2(transforms[e].current.orientation))
          /\ HasRoot(QMagnitude2(transforms[e].prev.orientation))
    /\ \A i \in 1..Len(rigid_bodies) :
          rigid_bodies[i].rb.kind = "Dynamic" =>
            let(update_body_from_transform(rigid_bodies[i],
                    transforms[rigid_bodies[i].entity]), LAMBDA c :
            let(angular_velocity_of(c.rb), LAMBDA angular_velocity :
            let(orientation_update(c.rb.state.orientation, dt,
                                   angular_velocity), LAMBDA new_orientation :
                HasRoot(QMagnitude2(new_orientation)))))

SimInit ==
    /\ rigid_bodies \in SimBodies
    /\ transforms = StartTransforms(rigid_bodies)
    /\ physics_engine = PhysicsEngineNew
    /\ panicked = FALSE
    /\ dt_arg = Zero
    /\ steps = 0
    /\ initial_momentum = Momentum(rigid_bodies)
    /\ overlapped = Coincide(rigid_bodies)

\* No body exists.
SimIdle ==
    /\ rigid_bodies = <<>>
    /\ transforms = <<>>
    /\ physics_engine = PhysicsEngineNew
    /\ panicked = FALSE
    /\ dt_arg = Zero
    /\ steps = 0
    /\ initial_momentum = VZero
    /\ overlapped = FALSE

SimulateResult(result, dt) ==
    /\ rigid_bodies' = result.rigid_bodies
    /\ transforms' = result.transforms
    /\ physics_engine' = result.physics_engine
    /\ panicked' = result.panicked
    /\ dt_arg' = dt
    /\ steps' = steps + 1
    /\ overlapped' = (overlapped \/ Coincide(result.rigid_bodies))
    /\ UNCHANGED initial_momentum

\* One call simulate(dt, rigid_bodies, transforms).
Simulate ==
    /\ pc = "idle"
    /\ ~panicked
    /\ steps < MaxSteps
    /\ \E dt \in {d \in SimTimesteps :
                        SmallBodies(MaxNumber) /\ SimRepresentable(d)} :
          \E result \in {simulate(dt, SimState(rigid_bodies, transforms,
                                               physics_engine, panicked))} :
              SimulateResult(result, dt)

SimNext == Simulate /\ UNCHANGED <<npVars, hostVars, rvVars, storeVars>>

-----------------------------------------------------------------------------
(* Engine::run: the host loop *)

MaxTicks == 2

MaxFrames == 2

TIMESTEP == Q(1, 50)

\* What produce_frame measures between two frames.
FrameTimes == {Q(1, 100), Q(1, 25)}

\* TimeKeeper::new
TimeKeeperNew == [accumulated |-> Zero, produced |-> Zero, consumed |-> Zero]

\* TimeKeeper::produce
produce(tk, time) ==
    [tk EXCEPT !.accumulated = RAdd(@, time), !.produced = RAdd(@, time)]

\* consume taking the time only from a keeper that holds more than it.
consume_more_than(tk, time) ==
    IF RLt(time, tk.accumulated)
    THEN [tk EXCEPT !.accumulated = RSub(@, time), !.consumed = RAdd(@, time)]
    ELSE tk

\* TimeKeeper::consume: the keeper after the call; the call returns true
\* exactly when time <= accumulated held before it.
consume(tk, time) ==
    IF RLe(time, tk.accumulated)
    THEN [tk EXCEPT !.accumulated = RSub(@, time), !.consumed = RAdd(@, time)]
    ELSE tk

\* The statement that follows a statement of the loop body with the two
\* resolver passes exchanged.
after_resolvers_exchanged(statement) ==
    CASE statement = "simulate" -> "detect_collisions"
      [] statement = "detect_collisions" -> "resolve_velocities"
      [] statement = "resolve_velocities" -> "sync_and_update"
      [] statement = "sync_and_update" -> "resolve_interpenetrations"
      [] statement = "resolve_interpenetrations" -> "consume"

\* The statement that follows a statement of the loop body when
\* resolve_collisions runs its two passes on the contacts of the one update.
after_single_update(statement) ==
    CASE statement = "simulate" -> "detect_collisions"
      [] statement = "detect_collisions" -> "resolve_interpenetrations"
      [] statement = "resolve_interpenetrations" -> "resolve_velocities"
      [] statement = "sync_and_update" -> "resolve_velocities"
      [] statement = "resolve_velocities" -> "consume"

\* The statement that follows a statement of the body of
\* while time_keeper.consume(TIMESTEP), resolve_collisions inlined.
after(statement) ==
    CASE statement = "simulate" -> "detect_collisions"
      [] statement = "detect_collisions" -> "resolve_interpenetrations"
      [] statement = "resolve_interpenetrations" -> "sync_and_update"
      [] statement = "sync_and_update" -> "resolve_velocities"
      [] statement = "resolve_velocities" -> "consume"

StaticBody(e, position_) ==
    [rb |-> Static(position_, QIdentity), entity |-> e]

HostBodies ==
    { <<StaticBody(4, V3(0, 0, -2)),
        SphereBody(1, R(1), V3(0, 0, -1), V3(30, 0, 0))>>,
      <<SphereBody(1, R(1), V3(1, 0, 0), VZero),
        SphereBody(2, R(2), VZero, VZero)>>,
      <<SphereBody(1, R(1), V3(0, 0, -1), VZero),
        StaticBody(4, V3(0, 0, -2)), StaticBody(5, V3(3, 0, -2))>> }

ContactNormals == <<V3(1, 0, 0), <<Zero, Q(3, 5), Q(4, 5)>>, V3(0, 0, -1)>>

\* A contact of two balls of radius 1.
BallContact(bodies, e1, e2, normal, depth) ==
    Contact(e1, e2,
            VAdd(position(lookup_component_for_entity(bodies, e1)), normal),
            VSub(position(lookup_component_for_entity(bodies, e2)), normal),
            normal, depth)

\* The contacts of one pair, as world.contacts() can yield them.
ContactGroups(bodies, e1, e2) ==
    { <<BallContact(bodies, e1, e2, ContactNormals[3], Half)>>,
      <<BallContact(bodies, e1, e2, ContactNormals[2], Half),
        BallContact(bodies, e1, e2, ContactNormals[1], R(1))>>,
      <<BallContact(bodies, e1, e2, ContactNormals[3], R(1)),
        BallContact(bodies, e1, e2, ContactNormals[2], Half)>>,
      <<BallContact(bodies, e1, e2, ContactNormals[1], R(1)),
        BallContact(bodies, e1, e2, ContactNormals[2], R(1))>> }

\* What world.contacts() can yield after world.update(): the contacts of a
\* pair are consecutive, and a pair of collision objects comes in one order.
ContactLists(bodies) ==
    {<<>>}
    \cup
    UNION { ContactGroups(bodies, bodies[1].entity, bodies[2].entity),
            ContactGroups(bodies, bodies[2].entity, bodies[1].entity) }
    \cup
    (IF Len(bodies) < 3 THEN {}
     ELSE { h \in ContactGroups(bodies, bodies[2].entity, bodies[3].entity) :
              Len(h) = 1 }
          \cup
          { g1 \o g2 :
              g1 \in ContactGroups(bodies, bodies[2].entity, bodies[3].entity),
              g2 \in { h \in ContactGroups(bodies, bodies[1].entity,
                                           bodies[3].entity) : Len(h) = 1 } }
          \cup
          { g1 \o g2 :
              g1 \in { h \in ContactGroups(bodies, bodies[1].entity,
                                           bodies[2].entity) : Len(h) = 2 },
              g2 \in { h \in ContactGroups(bodies, bodies[3].entity,
                                           bodies[1].entity) : Len(h) = 1 } })

HostInit ==
    /\ rigid_bodies \in HostBodies
    /\ transforms = StartTransforms(rigid_bodies)
    /\ physics_engine = PhysicsEngineNew
    /\ panicked = FALSE
    /\ dt_arg = Zero
    /\ steps = 0
    /\ initial_momentum = Momentum(rigid_bodies)
    /\ overlapped = Coincide(rigid_bodies)
    /\ time_keeper = TimeKeeperNew
    /\ pc = "produce_frame"
    /\ should_continue = TRUE
    /\ world = [positions |-> <<>>, contacts |-> <<>>]
    /\ phase_log = <<>>
    /\ ticks = 0
    /\ frames = 0

\* Engine::run has not been entered.
HostIdle ==
    /\ time_keeper = TimeKeeperNew
    /\ pc = "idle"
    /\ should_continue = TRUE
    /\ world = [positions |-> <<>>, contacts |-> <<>>]
    /\ phase_log = <<>>
    /\ ticks = 0
    /\ frames = 0

\* The number of ticks a keeper with this much accumulated time yields.
TicksIn(accumulated) == (accumulated[1] * TIMESTEP[2]) \div accumulated[2]

\* let frame_time = time_keeper.produce_frame();
ProduceFrame ==
    /\ pc = "produce_frame"
    /\ should_continue
    /\ frames < MaxFrames
    /\ \E elapsed \in FrameTimes :
          /\ ticks + TicksIn(RAdd(time_keeper.accumulated, elapsed)) <= MaxTicks
          /\ time_keeper' = produce(time_keeper, elapsed)
    /\ pc' = "consume"
    /\ frames' = frames + 1
    /\ UNCHANGED <<simVars, should_continue, world, phase_log, ticks>>

\* while time_keeper.consume(TIMESTEP)
Consume ==
    /\ pc = "consume"
    /\ time_keeper' = consume(time_keeper, TIMESTEP)
    /\ IF RLe(TIMESTEP, time_keeper.accumulated)
       THEN pc' = "simulate" /\ phase_log' = <<>> /\ ticks' = ticks + 1
       ELSE pc' = "interpolate" /\ UNCHANGED <<phase_log, ticks>>
    /\ UNCHANGED <<simVars, should_continue, world, frames>>

\* The statement at pc has run.
Advance ==
    /\ pc' = after(pc)
    /\ phase_log' = Append(phase_log, pc)
    /\ UNCHANGED <<time_keeper, should_continue, ticks, frames>>

\* systems.physics.simulate(TIMESTEP, ..)
TickSimulate ==
    /\ pc = "simulate"
    /\ \E dt \in {d \in {TIMESTEP} :
                        SmallBodies(MaxTickNumber) /\ SimRepresentable(d)} :
          \E result \in {simulate(dt, SimState(rigid_bodies, transforms,
                                               physics_engine, panicked))} :
              SimulateResult(result, dt)
    /\ Advance
    /\ UNCHANGED world

\* sync_shapes_and_positions(..); world.update(); an update from the
\* positions of the update before it yields the contacts it yielded.
SyncAndUpdate ==
    \E contacts \in
            IF world.positions = sync_shapes_and_positions(rigid_bodies)
            THEN {world.contacts}
            ELSE ContactLists(rigid_bodies) :
        world' = [positions |-> sync_shapes_and_positions(rigid_bodies),
                  contacts  |-> contacts]

\* detect_and_resolve up to its call of resolve_collisions.
DetectCollisions ==
    /\ pc = "detect_collisions"
    /\ SyncAndUpdate
    /\ Advance
    /\ UNCHANGED simVars

\* self.resolve_interpenetrations(bodies);
ResolveInterpenetrations ==
    /\ pc = "resolve_interpenetrations"
    /\ rigid_bodies' = resolve_interpenetrations(rigid_bodies, world.contacts)
    /\ Advance
    /\ UNCHANGED <<transforms, physics_engine, panicked, dt_arg, steps,
                   initial_momentum, overlapped, world>>

\* self.sync_shapes_and_positions(bodies, collision_store); self.world.update();
Redetect ==
    /\ pc = "sync_and_update"
    /\ SyncAndUpdate
    /\ Advance
    /\ UNCHANGED simVars

\* self.resolve_velocities(bodies);
ResolveVelocities ==
    /\ pc = "resolve_velocities"
    /\ rigid_bodies' = resolve_velocities(rigid_bodies, world.contacts)
    /\ Advance
    /\ UNCHANGED <<transforms, physics_engine, panicked, dt_arg, steps,
                   initial_momentum, overlapped, world>>

\* interpolate_transforms(.., progress) with its assertion on the fraction,
\* then the rendering and dispatch_messages: a WindowClosed message clears
\* should_continue.
Interpolate ==
    /\ pc = "interpolate"
    /\ IF /\ RLe(Zero, RDiv(time_keeper.accumulated, TIMESTEP))
          /\ RLe(RDiv(time_keeper.accumulated, TIMESTEP), One)
       THEN /\ should_continue' \in BOOLEAN
            /\ pc' = IF should_continue' THEN "produce_frame" ELSE "stopped"
            /\ UNCHANGED panicked
       ELSE /\ panicked' = TRUE
            /\ pc' = "stopped"
            /\ UNCHANGED should_continue
    /\ UNCHANGED <<rigid_bodies, transforms, physics_engine, dt_arg, steps,
                   initial_momentum, overlapped, time_keeper, world,
                   phase_log, ticks, frames>>

HostNext ==
    \/ ProduceFrame /\ UNCHANGED <<npVars, rvVars, storeVars>>
    \/ Consume /\ UNCHANGED <<npVars, rvVars, storeVars>>
    \/ TickSimulate /\ UNCHANGED <<npVars, rvVars, storeVars>>
    \/ DetectCollisions /\ UNCHANGED <<npVars, rvVars, storeVars>>
    \/ ResolveInterpenetrations /\ UNCHANGED <<npVars, rvVars, storeVars>>
    \/ Redetect /\ UNCHANGED <<npVars, rvVars, storeVars>>
    \/ ResolveVelocities /\ UNCHANGED <<npVars, rvVars, storeVars>>
    \/ Interpolate /\ UNCHANGED <<npVars, rvVars, storeVars>>

-----------------------------------------------------------------------------
(* resolve_velocities on one significant contact of the pair (1, 2) *)

\* Entity 1 is at (0, 0, 0) and entity 2 at (2, 0, 0).
ResolverBodies ==
    {<<SphereBody(1, m1, v1, l1), SphereBody(2, R(1), v2, VZero)>> :
        m1 \in {R(1), R(2)}, v1 \in {V3(-1, 0, 0), V3(1, 0, 0), V3(1, 1, 0)},
        v2 \in {VZero, V3(-1, 0, 0)}, l1 \in {VZero, V3(0, 0, 2)}}
    \cup
    {<<StaticBody(1, StartPosition(1)), SphereBody(2, R(1), v2, l2)>> :
        v2 \in {V3(-1, 0, 0), V3(1, 0, 0)}, l2 \in {VZero, V3(0, 0, 2)}}
    \cup
    {<<SphereBody(1, R(1), v1, l1), StaticBody(2, StartPosition(2))>> :
        v1 \in {V3(-1, 0, 0), V3(1, 0, 0)}, l1 \in {VZero, V3(0, 0, 2)}}
    \cup
    \* a body whose inertia differs from axis to axis, turned by a third of a
    \* turn about (1, 1, 1), and a ball
    {<<[rb |-> Dynamic(DynamicBodyState(StartPosition(1),
                                        <<Half, Half, Half, Half>>,
                                        V3(1, 1, 0), l1),
                       R(2), <<V3(1, 0, 0), V3(0, 1, 0), V3(0, 0, 2)>>),
        entity |-> 1],
       SphereBody(2, R(1), V3(-1, 0, 0), VZero)>> :
        l1 \in {VZero, V3(0, 0, -2)}}

ResolverNormals == {V3(1, 0, 0), V3(2, 0, 0), <<Q(3, 5), Q(4, 5), Zero>>}

\* The contacts of the pair: world1 is on the surface of the first ball, on
\* the line of centers or off it.
ResolverContacts ==
    {Contact(1, 2, world1, VSub(world1, VScale(Half, normal)), normal, Half) :
        world1 \in {V3(1, 0, 0), V3(0, 1, 0)}, normal \in ResolverNormals}

ResolverInit ==
    /\ rvIn \in ResolverBodies
    /\ rvContact \in ResolverContacts
    /\ rvOut = <<>>
    /\ rvPc = "input"

\* No resolution is under way.
ResolverIdle ==
    /\ rvIn = <<>>
    /\ rvContact = Contact(1, 2, VZero, VZero, unit_x, Zero)
    /\ rvOut = <<>>
    /\ rvPc = "idle"

\* resolve_velocities when the world yields the one contact.
ResolveVelocityOfPair ==
    /\ rvPc = "input"
    /\ rvOut' = resolve_velocities(rvIn, <<rvContact>>)
    /\ rvPc' = "done"
    /\ UNCHANGED <<rvIn, rvContact>>

ResolverNext ==
    ResolveVelocityOfPair /\ UNCHANGED <<npVars, simVars, hostVars, storeVars>>

-----------------------------------------------------------------------------
(* EntityManager and PhysicsComponentStore *)

MaxEntities == 3

MaxRegistrations == 2

EntityManagerNew == [next |-> 0, entities |-> {}]

\* A create that returns the least id that is not alive.
create_reusing(manager) ==
    [manager |-> [next |-> manager.next + 1,
                  entities |-> manager.entities \cup
                      {CHOOSE id \in 0..manager.next :
                          /\ id \notin manager.entities
                          /\ \A less \in 0..(id - 1) : less \in manager.entities}],
     entity |-> CHOOSE id \in 0..manager.next :
                    /\ id \notin manager.entities
                    /\ \A less \in 0..(id - 1) : less \in manager.entities]

\* EntityManager::create: the manager after the call and the entity returned.
create(manager) ==
    [manager |-> [next |-> manager.next + 1,
                  entities |-> manager.entities \cup {manager.next}],
     entity |-> manager.next]

alive(manager, entity) == entity \in manager.entities

\* EntityManager::destroy: the manager after the call.
destroy(manager, entity) ==
    [manager EXCEPT !.entities = manager.entities \ {entity}]

PhysicsComponentStoreNew ==
    [position |-> <<>>, velocity |-> <<>>, orientation |-> <<>>,
     angular_momentum |-> <<>>, mass |-> <<>>, inv_inertia_body |-> <<>>,
     acceleration |-> <<>>, prev_position |-> <<>>, prev_orientation |-> <<>>,
     prev_acceleration |-> <<>>, entity_map |-> <<>>]

PhysicsComponent(position_, velocity, angular_velocity, mass, inertia_body) ==
    [position |-> position_, velocity |-> velocity, orientation |-> QIdentity,
     angular_velocity |-> angular_velocity, mass |-> mass,
     inertia_body |-> inertia_body]

PhysicsComponentDefault ==
    PhysicsComponent(VZero, VZero, VZero, Zero, M3Identity)

\* The inertia tensor blueprints::sphere computes.
sphere_inertia_tensor(mass, radius) ==
    M3Scale(RMul(RMul(RMul(Q(2, 5), mass), radius), radius), M3Identity)

\* cgmath Matrix3::invert: None ("Err") when the determinant is 0.
invert(mat) == try_3x3_inverse(mat)

num_components(store) == Len(store.position)

\* The index entity_map.entry(entity).or_insert(next_available_index) yields.
or_insert(store, entity) ==
    IF \E k \in 1..Len(store.entity_map) : store.entity_map[k].entity = entity
    THEN (CHOOSE k \in 1..Len(store.entity_map) :
                store.entity_map[k].entity = entity) - 1
    ELSE num_components(store)

\* The store with the properties of the component at index (from 0): pushed
\* when index is the next available one, written in place otherwise.
with_properties(store, entity, index, c, inv_inertia_body, angular_momentum) ==
    IF index >= num_components(store)
    THEN [position          |-> Append(store.position, c.position),
          velocity          |-> Append(store.velocity, c.velocity),
          orientation       |-> Append(store.orientation, c.orientation),
          angular_momentum  |-> Append(store.angular_momentum, angular_momentum),
          mass              |-> Append(store.mass, c.mass),
          inv_inertia_body  |-> Append(store.inv_inertia_body, inv_inertia_body),
          acceleration      |-> Append(store.acceleration, VZero),
          prev_position     |-> Append(store.prev_position, c.position),
          prev_orientation  |-> Append(store.prev_orientation, c.orientation),
          prev_acceleration |-> Append(store.prev_acceleration, VZero),
          entity_map        |-> Append(store.entity_map,
                                       [entity |-> entity, index |-> index])]
    ELSE [store EXCEPT
            !.position[index + 1] = c.position,
            !.velocity[index + 1] = c.velocity,
            !.orientation[index + 1] = c.orientation,
            !.angular_momentum[index + 1] = angular_momentum,
            !.mass[index + 1] = c.mass,
            !.inv_inertia_body[index + 1] = inv_inertia_body,
            !.acceleration[index + 1] = VZero,
            !.prev_position[index + 1] = c.position,
            !.prev_orientation[index + 1] = c.orientation,
            !.prev_acceleration[index + 1] = VZero]

\* The store after the call with the entity inserted before the inverse of
\* the inertia tensor is taken.
set_component_properties_insert_first(store, entity, component) ==
    IF ~RLe(Zero, component.mass) THEN [store |-> store, panicked |-> TRUE]
    ELSE let(or_insert(store, entity), LAMBDA index :
         let(invert(component.inertia_body), LAMBDA inv_inertia_body :
            [store |-> with_properties(store, entity, index, component,
                            M3Identity,
                            M3Vec(component.inertia_body,
                                  component.angular_velocity)),
             panicked |-> inv_inertia_body = "Err"]))

\* PhysicsComponentStore::set_component_properties: the store after the call,
\* and whether the call has panicked.
set_component_properties(store, entity, component) ==
    IF ~RLe(Zero, component.mass) THEN [store |-> store, panicked |-> TRUE]
    ELSE let(invert(component.inertia_body), LAMBDA inv_inertia_body :
            IF inv_inertia_body = "Err" THEN [store |-> store, panicked |-> TRUE]
            ELSE let2(M3Vec(component.inertia_body, component.angular_velocity),
                      or_insert(store, entity),
                      LAMBDA angular_momentum, index :
                    [store |-> with_properties(store, entity, index, component,
                                    inv_inertia_body, angular_momentum),
                     panicked |-> FALSE]))

Infinity == <<1, 0>>

\* A matrix of rank 2.
M3Singular == <<V3(1, 0, 0), V3(0, 1, 0), V3(1, 1, 0)>>

\* The components set_component_properties is called with.
ComponentInputs ==
    { PhysicsComponentDefault,
      PhysicsComponent(V3(1, 0, 0), VZero, V3(0, 0, 1), R(1),
                       sphere_inertia_tensor(R(1), R(1))),
      PhysicsComponent(VZero, VZero, VZero, Infinity, M3Identity),
      PhysicsComponent(VZero, VZero, VZero, R(-1), M3Identity),
      PhysicsComponent(VZero, VZero, VZero, NaN, M3Identity),
      PhysicsComponent(VZero, VZero, VZero, R(1), M3Singular),
      PhysicsComponent(V3(1, 0, 0), VZero, VZero, R(1),
                       sphere_inertia_tensor(Zero, R(1))),
      PhysicsComponent(VZero, VZero, VZero, R(-1), M3Singular) }

RangeOf(seq) == {seq[k] : k \in 1..Len(seq)}

StoreInit ==
    /\ entity_manager = EntityManagerNew
    /\ created = <<>>
    /\ destroyed = {}
    /\ components = PhysicsComponentStoreNew
    /\ registrations = <<>>
    /\ store_panicked = FALSE

\* EntityManager::create
Create ==
    /\ ~store_panicked
    /\ entity_manager.next < MaxEntities
    /\ \E result \in {create(entity_manager)} :
          /\ entity_manager' = result.manager
          /\ created' = Append(created, result.entity)
    /\ UNCHANGED <<destroyed, components, registrations, store_panicked>>

\* EntityManager::destroy, called with an entity create has returned.
Destroy ==
    /\ ~store_panicked
    /\ \E entity \in RangeOf(created) :
          /\ entity_manager' = destroy(entity_manager, entity)
          /\ destroyed' = destroyed \cup {entity}
    /\ UNCHANGED <<created, components, registrations, store_panicked>>

\* PhysicsComponentStore::set_component_properties
SetComponentProperties ==
    /\ ~store_panicked
    /\ Len(registrations) < MaxRegistrations
    /\ \E entity \in RangeOf(created), component \in ComponentInputs :
          \E result \in {set_component_properties(components, entity,
                                                  component)} :
              /\ components' = result.store
              /\ store_panicked' = result.panicked
              /\ registrations' = Append(registrations,
                    [entity |-> entity, component |-> component])
    /\ UNCHANGED <<entity_manager, created, destroyed>>

StoreNext ==
    \/ Create /\ UNCHANGED <<npVars, simVars, hostVars, rvVars>>
    \/ Destroy /\ UNCHANGED <<npVars, simVars, hostVars, rvVars>>
    \/ SetComponentProperties /\ UNCHANGED <<npVars, simVars, hostVars, rvVars>>

\* Nothing has been created.
StoreIdle ==
    /\ entity_manager = EntityManagerNew
    /\ created = <<>>
    /\ destroyed = {}
    /\ components = PhysicsComponentStoreNew
    /\ registrations = <<>>
    /\ store_panicked = FALSE

-----------------------------------------------------------------------------
(* Properties of the narrow phase *)

SphereSphereDone ==
    npPc = "done" /\ npA.type = "Sphere" /\ npB.type = "Sphere"

SphereCuboidDone ==
    npPc = "done" /\ npA.type = "Sphere" /\ npB.type = "Cuboid"

CuboidCuboidDone ==
    npPc = "done" /\ npA.type = "Cuboid" /\ npB.type = "Cuboid"

CenterDistance == magnitude(VSub(npB.center, npA.center))

\* C5: contact_sphere_sphere reports a contact exactly when the distance
\* between the centers is at most the sum of the radii; the depth is then
\* r1 + r2 - |c2 - c1| and the normal is normalize(c2 - c1), or (1, 0, 0)
\* when the centers coincide.  Radius 1 spheres at the origin and at
\* (1.5, 0, 0) give depth 0.5, normal (1, 0, 0), point (0.5, 0, 0); radius 1
\* spheres at the origin and at (3, 0, 0) give no contact.
C5_SphereSphereContact ==
    SphereSphereDone =>
        /\ npAB.some <=> RLe(CenterDistance, RAdd(npA.radius, npB.radius))
        /\ npAB.some =>
              /\ npAB.penetration_depth =
                    RSub(RAdd(npA.radius, npB.radius), CenterDistance)
              /\ npAB.normal =
                    IF npA.center = npB.center THEN V3(1, 0, 0)
                    ELSE VScale(RInv(CenterDistance),
                                VSub(npB.center, npA.center))
        /\ (npA = Sphere(R(1), V3(0, 0, 0))
                /\ npB = Sphere(R(1), <<Q(3, 2), Zero, Zero>>))
              => npAB = Some(<<Half, Zero, Zero>>, V3(1, 0, 0), Half)
        /\ (npA = Sphere(R(1), V3(0, 0, 0)) /\ npB = Sphere(R(1), V3(3, 0, 0)))
              => npAB = None

\* Two touching spheres (distance = r1 + r2) have been detected.
C5_TouchingSpheresDetected ==
    /\ SphereSphereDone
    /\ npA.center # npB.center
    /\ CenterDistance = RAdd(npA.radius, npB.radius)
    /\ npAB.some

\* The direction from the center of the first sphere to that of the second,
\* (1, 0, 0) when the centers coincide.
CenterDirection ==
    IF npA.center = npB.center THEN V3(1, 0, 0)
    ELSE VScale(RInv(CenterDistance), VSub(npB.center, npA.center))

\* C21 as stated: the contact point of contact_sphere_sphere is the midpoint
\* of the two surface points c1 + r1 n and c2 - r2 n.
C21_MidpointContactPoint ==
    (SphereSphereDone /\ npAB.some) =>
        npAB.point =
            VScale(Half,
                   VAdd(VAdd(npA.center, VScale(npA.radius, CenterDirection)),
                        VSub(npB.center, VScale(npB.radius, CenterDirection))))

\* C21, amended: the contact point of contact_sphere_sphere is the surface
\* point of the second sphere, c2 - r2 n.
C21_SecondSurfaceContactPoint ==
    (SphereSphereDone /\ npAB.some) =>
        npAB.point = VSub(npB.center, VScale(npB.radius, CenterDirection))

\* Two spheres of different radii that overlap by more than a touch, their
\* centers apart, have been detected.
C21_PenetratingSpheresDetected ==
    /\ SphereSphereDone
    /\ npAB.some
    /\ npA.center # npB.center
    /\ npA.radius # npB.radius
    /\ RLt(Zero, npAB.penetration_depth)

ClosestPointDistance ==
    magnitude(VSub(closest_interior_point(npB, npA.center), npA.center))

\* C6: contact_sphere_cuboid takes the closest point of the cuboid to the
\* sphere center as the contact point, reports a contact exactly when that
\* point is within the radius of the center, and the depth is the radius
\* minus the distance from the center to that point.  A cuboid of half-extents
\* (0.5, 0.5, 0.5) at (1.25, 0, 0) and a sphere of radius 1 at the origin give
\* point (0.75, 0, 0), normal (1, 0, 0), depth 0.25.
C6_SphereCuboidContact ==
    SphereCuboidDone =>
        /\ npAB.some <=> RLe(ClosestPointDistance, npA.radius)
        /\ npAB.some =>
              /\ npAB.point = closest_interior_point(npB, npA.center)
              /\ npAB.penetration_depth =
                    RSub(npA.radius, ClosestPointDistance)
        /\ (npA = Sphere(R(1), V3(0, 0, 0))
                /\ npB = Cuboid(<<Q(5, 4), Zero, Zero>>, <<Half, Half, Half>>,
                                QIdentity))
              => npAB = Some(<<Q(3, 4), Zero, Zero>>, V3(1, 0, 0), Q(1, 4))

\* C22 as stated: the normal of contact_sphere_cuboid is the unit vector
\* pointing from the closest point on the cuboid to the sphere center.
C22_NormalTowardSphere ==
    (SphereCuboidDone /\ npAB.some) =>
        npAB.normal =
            VScale(RInv(ClosestPointDistance),
                   VSub(npA.center, closest_interior_point(npB, npA.center)))

\* C22, amended: the normal of contact_sphere_cuboid is the unit vector
\* pointing from the sphere center to the closest point on the cuboid; when
\* the sphere center is its own closest point (it lies in the cuboid), no
\* component of the normal is a number.
C22_NormalTowardCuboid ==
    (SphereCuboidDone /\ npAB.some) =>
        let(closest_interior_point(npB, npA.center), LAMBDA closest :
            IF closest = npA.center
            THEN \A i \in 1..3 : IsNaN(npAB.normal[i])
            ELSE /\ npAB.normal =
                        VScale(RInv(ClosestPointDistance),
                               VSub(closest, npA.center))
                 /\ magnitude2(npAB.normal) = One)

\* A sphere that reaches into a turned cuboid from outside has been detected.
C22_SphereOutsideTurnedCuboid ==
    /\ SphereCuboidDone
    /\ npAB.some
    /\ npB.rotation = Qz
    /\ closest_interior_point(npB, npA.center) # npA.center
    /\ RLt(Zero, npAB.penetration_depth)

\* C7: every contact of the narrow phase has a normal of unit length and a
\* penetration depth >= 0.
C7_UnitNormalNonNegativeDepth ==
    (npPc = "done" /\ npAB.some) =>
        /\ magnitude2(npAB.normal) = One
        /\ RLe(Zero, npAB.penetration_depth)

\* C8: detection is symmetric.  For two spheres or two cuboids, both argument
\* orders agree on whether there is a contact, and give the same depth and
\* opposite normals; two cuboids also give the same contact point.
C8_SymmetricDetection ==
    (SphereSphereDone \/ CuboidCuboidDone) =>
        /\ npAB.some = npBA.some
        /\ npAB.some =>
              /\ npAB.penetration_depth = npBA.penetration_depth
              /\ npAB.normal = VNeg(npBA.normal)
              /\ CuboidCuboidDone => npAB.point = npBA.point

\* The axes contact_cuboid_cuboid(npA, npB) tests.
TestedAxes == candidate_axes(cuboid_axes(npA), cuboid_axes(npB))

\* The cross product of local axis i of npA and local axis j of npB.
EdgeProduct(i, j) == VCross(cuboid_axes(npA)[i], cuboid_axes(npB)[j])

UpToSign(u, v) == u = v \/ u = VNeg(v)

\* The half extent along the axis of the cuboid with the given local axes.
HalfExtentAlong(cuboid, local_axes, axis) ==
    RAdd(RAdd(RMul(cuboid.half_size[1], RAbs(VDot(local_axes[0], axis))),
              RMul(cuboid.half_size[2], RAbs(VDot(local_axes[1], axis)))),
         RMul(cuboid.half_size[3], RAbs(VDot(local_axes[2], axis))))

\* projA + projB - |center separation along the axis|, for the axis as it is.
Overlap(a_axes, b_axes, axis) ==
    RSub(RAdd(HalfExtentAlong(npA, a_axes, axis),
              HalfExtentAlong(npB, b_axes, axis)),
         RAbs(VDot(axis, VSub(npB.center, npA.center))))

\* The indices of the axes of squared magnitude > 0.0001.
Considered == {k \in 0..14 : RLt(Q(1, 10000), magnitude2(TestedAxes[k]))}

\* The penetration along each considered axis, normalized: p / sqrt(s).
Depths ==
    let2(cuboid_axes(npA), cuboid_axes(npB), LAMBDA a_axes, b_axes :
        let(candidate_axes(a_axes, b_axes), LAMBDA axes :
            Array([k \in {i \in 0..14 : RLt(Q(1, 10000), magnitude2(axes[i]))} |->
                [p |-> Overlap(a_axes, b_axes, axes[k]),
                 s |-> magnitude2(axes[k])]])))

IsMinimum(depths, k) ==
    \A j \in DOMAIN depths : ~SurdLt(depths[j], depths[k])

\* An edge-edge axis is the axis of minimum penetration, and the penetration
\* along it is >= 0.
EdgeAxisIsMinimum ==
    let(Depths, LAMBDA depths :
        \E k \in DOMAIN depths \cap 6..14 :
            /\ RLe(Zero, depths[k].p)
            /\ \A j \in DOMAIN depths \cap 0..5 : SurdLt(depths[k], depths[j])
            /\ IsMinimum(depths, k))

\* C15: when the axis of minimum penetration is an edge-edge axis (index 6 to
\* 14) and its penetration is >= 0, contact_cuboid_cuboid returns no contact:
\* it neither panics nor builds a contact point.
C15_EdgeEdgeNoContact ==
    (CuboidCuboidDone /\ EdgeAxisIsMinimum) => npAB = None

\* Two cuboids that overlap least along the cross product of two of their
\* edges have been tested.
C15_EdgeEdgeTested ==
    /\ CuboidCuboidDone /\ EdgeAxisIsMinimum
    /\ npA.rotation = Qx /\ npB.rotation = Qy
    /\ npAB = None

\* C19: the candidate axes are the 3 local axes of a, the 3 local axes of b
\* and the 9 cross products a_i x b_j: each of the nine combinations (i, j) is
\* tested, up to sign, exactly once.
C19_AllEdgeProductsTested ==
    CuboidCuboidDone =>
        let2(TestedAxes,
             Array([pair \in (0..2) \X (0..2) |-> EdgeProduct(pair[1], pair[2])]),
             LAMBDA axes, products :
            /\ \A i \in 0..2 :
                  /\ axes[i] = cuboid_axes(npA)[i]
                  /\ axes[3 + i] = cuboid_axes(npB)[i]
            /\ \A pair \in DOMAIN products :
                  Cardinality({k \in 6..14 : UpToSign(axes[k], products[pair])})
                    = Cardinality({other \in DOMAIN products :
                                    UpToSign(products[other], products[pair])}))

\* C20: only the axes of squared magnitude > 0.0001 are considered, the six
\* face axes among them; no contact is returned when the least penetration
\* projA + projB - |center separation| along a considered, normalized axis is
\* < 0; a returned contact has that least penetration as its depth and a
\* normal n with n . (b.center - a.center) >= 0.
C20_MinimumPenetrationContact ==
    CuboidCuboidDone =>
        let(Depths, LAMBDA depths :
            /\ 0..5 \subseteq DOMAIN depths
            /\ npAB # Panicked
            /\ (\E k \in DOMAIN depths : RLt(depths[k].p, Zero)) => ~npAB.some
            /\ npAB.some =>
                  /\ \E k \in DOMAIN depths :
                        /\ RLe(Zero, npAB.penetration_depth)
                        /\ RMul(RSq(npAB.penetration_depth), depths[k].s)
                              = RSq(depths[k].p)
                        /\ IsMinimum(depths, k)
                  /\ RLe(Zero, VDot(npAB.normal,
                                    VSub(npB.center, npA.center))))

\* A contact has been returned for two cuboids of which some edges are
\* parallel, the second cuboid lying on the negative side of the axes of the
\* first.
C20_ContactWithParallelEdges ==
    /\ CuboidCuboidDone
    /\ npAB.some
    /\ RLt(Zero, npAB.penetration_depth)
    /\ Considered # 0..14
    /\ npB.center = V3(0, 0, 0) /\ npA.center = <<Q(3, 2), R(1), Zero>>

-----------------------------------------------------------------------------
(* Properties of the integrator *)

\* C2: simulate called with dt < 0 aborts on its assertion before any rigid
\* body, transform or buffer has been modified; with dt >= 0 the assertion
\* does not fire.
C2_NegativeDtAbortsUnchanged ==
    [][steps' = steps + 1 =>
        /\ RLt(dt_arg', Zero) =>
              /\ panicked'
              /\ UNCHANGED <<rigid_bodies, transforms, physics_engine>>
        /\ RLe(Zero, dt_arg') => ~panicked']_vars

\* A body in motion has been handed to simulate with a negative dt.
C2_AbortedWithMovingBody ==
    /\ panicked
    /\ RLt(dt_arg, Zero)
    /\ \E i \in 1..Len(rigid_bodies) :
          rigid_bodies[i].rb.state.velocity # VZero

\* C3: bodies with no contacts (no two of them have been at the same
\* position) and stored accelerations initially zero have, after any number
\* of integration steps with dt >= 0, the total linear momentum they had
\* before the first step.
C3_MomentumConserved ==
    ~overlapped => Momentum(rigid_bodies) = initial_momentum

\* Gravity has changed the velocity of a body in each of MaxSteps steps.
C3_GravityChangedVelocities ==
    /\ steps = MaxSteps
    /\ ~panicked
    /\ ~overlapped
    /\ \E i \in 1..Len(rigid_bodies) :
          /\ rigid_bodies[i].rb.state.acceleration # VZero
          /\ rigid_bodies[i].rb.prev_state.acceleration # VZero
          /\ rigid_bodies[i].rb.state.velocity
                # rigid_bodies[i].rb.prev_state.velocity

\* C4: after any sequence of integration steps each body's orientation is a
\* quaternion of length 1.
C4_UnitOrientation ==
    \A i \in 1..Len(rigid_bodies) :
        rigid_bodies[i].rb.kind = "Dynamic" =>
            QMagnitude2(rigid_bodies[i].rb.state.orientation) = One

\* A body with angular momentum has been turned in each of MaxSteps steps.
C4_BodyTurned ==
    /\ steps = MaxSteps
    /\ ~panicked
    /\ \E i \in 1..Len(rigid_bodies) :
          /\ rigid_bodies[i].rb.state.angular_momentum # VZero
          /\ rigid_bodies[i].rb.state.orientation
                # rigid_bodies[i].rb.prev_state.orientation
          /\ rigid_bodies[i].rb.prev_state.orientation # QIdentity

\* A call of simulate has returned in this step.
Simulated == steps' = steps + 1 /\ ~panicked'

\* The acceleration of body i when the bodies are at the given positions: the
\* sum, from zero, of what each other body contributes.
RECURSIVE AccelerationAt(_, _, _, _)
AccelerationAt(x, m, i, j) ==
    IF j > Len(x) THEN VZero
    ELSE IF j = i THEN AccelerationAt(x, m, i, j + 1)
    ELSE let(VSub(x[j], x[i]), LAMBDA r :
         let(VScale(RDiv(RDiv(RMul(RMul(G, m[i]), m[j]), magnitude2(r)), m[i]), r),
             LAMBDA contribution :
                VAdd(contribution, AccelerationAt(x, m, i, j + 1))))

\* C18, in squares: what body j contributes to the acceleration of body i
\* points from i to j and has magnitude G * m_j / |r|^2, r = x_j - x_i.
InverseSquare(acceleration, r, m_j) ==
    /\ VCross(acceleration, r) = VZero
    /\ RLt(Zero, VDot(acceleration, r))
    /\ RMul(magnitude2(acceleration), RSq(magnitude2(r))) = RSq(RMul(G, m_j))

\* C17: a step of the linear integration computes, for every body,
\* x' = x + v dt + 0.5 a dt^2 with the stored a, then a' from the new
\* positions of all bodies alone, then v' = v + 0.5 dt (a + a'); x', v', a'
\* are stored as the state and the old x, v, a as the previous state.
C17_VelocityVerletStep ==
    [][Simulated =>
        let2(Vec([i \in 1..Len(rigid_bodies) |->
                    rigid_bodies'[i].rb.state.position]),
             Vec([i \in 1..Len(rigid_bodies) |-> rigid_bodies[i].rb.mass]),
             LAMBDA x_next, m :
            \A i \in 1..Len(rigid_bodies) :
                let2(rigid_bodies[i].rb.state, rigid_bodies'[i].rb,
                     LAMBDA old, rb :
                    /\ rb.state.position =
                          VAdd(old.position,
                               VAdd(VScale(dt_arg', old.velocity),
                                    VScale(RMul(RMul(Half, dt_arg'), dt_arg'),
                                           old.acceleration)))
                    /\ rb.state.acceleration = AccelerationAt(x_next, m, i, 1)
                    /\ rb.state.velocity =
                          VAdd(old.velocity,
                               VScale(RMul(Half, dt_arg'),
                                      VAdd(old.acceleration,
                                           rb.state.acceleration)))
                    /\ rb.prev_state.position = old.position
                    /\ rb.prev_state.velocity = old.velocity
                    /\ rb.prev_state.acceleration = old.acceleration))]_vars

\* Three bodies have been moved twice, by a second step with dt > 0 that
\* found accelerations stored by the first.
C17_SteppedTwice ==
    /\ steps = MaxSteps
    /\ ~panicked
    /\ RLt(Zero, dt_arg)
    /\ Len(rigid_bodies) = 3
    /\ \A i \in 1..Len(rigid_bodies) :
          /\ rigid_bodies[i].rb.prev_state.acceleration # VZero
          /\ rigid_bodies[i].rb.state.acceleration
                # rigid_bodies[i].rb.prev_state.acceleration
          /\ rigid_bodies[i].rb.state.position
                # rigid_bodies[i].rb.prev_state.position

\* C18: the acceleration that body j contributes to body i points from i to
\* j and has magnitude G * m_j / |r|^2 with r = x_j - x_i, for bodies at
\* distinct positions.  With two bodies the stored acceleration of each is
\* the contribution of the other.
C18_GravityInverseSquare ==
    (/\ steps > 0 /\ ~panicked
     /\ Len(rigid_bodies) = 2
     /\ rigid_bodies[1].rb.state.position # rigid_bodies[2].rb.state.position)
    => /\ InverseSquare(rigid_bodies[1].rb.state.acceleration,
                        VSub(rigid_bodies[2].rb.state.position,
                             rigid_bodies[1].rb.state.position),
                        rigid_bodies[2].rb.mass)
       /\ InverseSquare(rigid_bodies[2].rb.state.acceleration,
                        VSub(rigid_bodies[1].rb.state.position,
                             rigid_bodies[2].rb.state.position),
                        rigid_bodies[1].rb.mass)

\* C26: a call of simulate leaves the angular momentum, the mass and the
\* inverse inertia tensor of every body as they were, so that after any
\* number of calls with no contact resolution in between each body has the
\* angular momentum it started with.
C26_AngularMomentumKept ==
    [][steps' = steps + 1 =>
        /\ Len(rigid_bodies') = Len(rigid_bodies)
        /\ \A i \in 1..Len(rigid_bodies) :
              /\ rigid_bodies'[i].rb.state.angular_momentum
                    = rigid_bodies[i].rb.state.angular_momentum
              /\ rigid_bodies'[i].rb.prev_state.angular_momentum
                    = rigid_bodies[i].rb.prev_state.angular_momentum
              /\ rigid_bodies'[i].rb.mass = rigid_bodies[i].rb.mass
              /\ rigid_bodies'[i].rb.inv_inertia_body
                    = rigid_bodies[i].rb.inv_inertia_body]_vars

\* A spinning, moving body has been integrated MaxSteps times, the last time
\* with dt > 0, next to a body of another mass.
C26_SpinningBodyIntegrated ==
    /\ steps = MaxSteps
    /\ ~panicked
    /\ RLt(Zero, dt_arg)
    /\ rigid_bodies[1].rb.state.angular_momentum = <<Q(3, 5), Zero, Zero>>
    /\ rigid_bodies[1].rb.state.orientation # QIdentity
    /\ rigid_bodies[1].rb.state.velocity # VZero
    /\ rigid_bodies[1].rb.mass # rigid_bodies[2].rb.mass

-----------------------------------------------------------------------------
(* Properties of the host loop and of the resolver *)

Precedes(first, second) ==
    \A i \in 1..Len(phase_log) :
        phase_log[i] = second =>
            \E j \in 1..(i - 1) : phase_log[j] = first

Ran(phase) == \E i \in 1..Len(phase_log) : phase_log[i] = phase

RanOnce(phase) ==
    Cardinality({i \in 1..Len(phase_log) : phase_log[i] = phase}) = 1

\* C1: in every fixed tick the phases run in the order integration, collision
\* detection, interpenetration correction, velocity resolution: no resolver
\* pass before the tick's integration and detection, no velocity resolution
\* before the tick's interpenetration correction, and a tick that has ended
\* has run each of the four once.
C1_PhaseOrder ==
    /\ Precedes("simulate", "detect_collisions")
    /\ Precedes("simulate", "resolve_interpenetrations")
    /\ Precedes("simulate", "resolve_velocities")
    /\ Precedes("detect_collisions", "resolve_interpenetrations")
    /\ Precedes("resolve_interpenetrations", "resolve_velocities")
    /\ (ticks > 0 /\ pc \in {"consume", "interpolate", "produce_frame", "stopped"})
          => /\ RanOnce("simulate")
             /\ RanOnce("detect_collisions")
             /\ RanOnce("resolve_interpenetrations")
             /\ RanOnce("resolve_velocities")

\* The last of MaxTicks ticks has ended.
C1_LastTickEnded ==
    /\ ticks = MaxTicks
    /\ pc = "consume"
    /\ Ran("resolve_velocities")

\* The entity pairs that have contacts, the contacts of a pair, and the
\* contacts of greatest depth of a pair.
PairsOf(contacts) ==
    {<<contacts[i].entity1, contacts[i].entity2>> : i \in 1..Len(contacts)}

ContactsOfPair(contacts, pair) ==
    {contacts[i].contact : i \in
        {k \in 1..Len(contacts) :
            <<contacts[k].entity1, contacts[k].entity2>> = pair}}

Deepest(contacts, pair) ==
    {c \in ContactsOfPair(contacts, pair) :
        \A d \in ContactsOfPair(contacts, pair) : RLe(d.depth, c.depth)}

\* The pairs in the order in which their first contact comes.
RECURSIVE PairsInOrder(_, _)
PairsInOrder(contacts, seen) ==
    IF contacts = <<>> THEN seen
    ELSE PairsInOrder(Tail(contacts),
            IF \E i \in 1..Len(seen) :
                  seen[i] = <<Head(contacts).entity1, Head(contacts).entity2>>
            THEN seen
            ELSE Append(seen,
                        <<Head(contacts).entity1, Head(contacts).entity2>>))

\* Each pair resolved once, in order, with the contact chosen for it.
RECURSIVE ResolvedOnce(_, _, _, _)
ResolvedOnce(bodies, pairs, chosen, pass) ==
    IF pairs = <<>> THEN bodies
    ELSE let(IF pass = "resolve_interpenetrations"
             THEN resolve_interpenetration(bodies, Head(pairs)[1],
                                           Head(pairs)[2], chosen[Head(pairs)])
             ELSE resolve_velocity(bodies, Head(pairs)[1], Head(pairs)[2],
                                   chosen[Head(pairs)]),
             LAMBDA resolved :
                ResolvedOnce(resolved, Tail(pairs), chosen, pass))

DeepestChoices(contacts) ==
    {chosen \in [PairsOf(contacts) ->
                    UNION {ContactsOfPair(contacts, p) : p \in PairsOf(contacts)}] :
        \A p \in PairsOf(contacts) : chosen[p] \in Deepest(contacts, p)}

PassRan(pass) == pc = pass /\ pc' # pass

\* C9: in the interpenetration pass and in the velocity pass, every entity
\* pair that has contacts is resolved exactly once, with a contact of
\* greatest depth among the pair's contacts, and nothing else changes a body.
C9_DeepestContactOncePerPair ==
    [][\A pass \in {"resolve_interpenetrations", "resolve_velocities"} :
          PassRan(pass) =>
            rigid_bodies' \in
                {ResolvedOnce(rigid_bodies, pairs, chosen, pass) :
                    pairs \in {PairsInOrder(world.contacts, <<>>)},
                    chosen \in DeepestChoices(world.contacts)}]_vars

\* The interpenetration pass has moved a body for a pair whose first contact
\* is not its deepest one.
C9_ShallowContactFirst ==
    /\ pc = "sync_and_update"
    /\ Len(world.contacts) >= 2
    /\ world.contacts[1].entity1 = world.contacts[2].entity1
    /\ world.contacts[1].entity2 = world.contacts[2].entity2
    /\ RLt(world.contacts[1].contact.depth, world.contacts[2].contact.depth)
    /\ \E i \in 1..Len(rigid_bodies) :
          position(rigid_bodies[i].rb)
            # transforms[rigid_bodies[i].entity].current.position

KindOf(e) == lookup_component_for_entity(rigid_bodies, e).kind

\* The only pair with contacts that e belongs to is pair.
OnlyPairOf(e, pair) ==
    \A p \in PairsOf(world.contacts) : (e = p[1] \/ e = p[2]) => p = pair

MovedBy(e, displacement) ==
    lookup_component_for_entity(rigid_bodies', e) =
        [lookup_component_for_entity(rigid_bodies, e) EXCEPT
            !.state.position = VAdd(@, displacement)]

\* C10: for a contact between a static and a dynamic body (the normal points
\* from the first entity to the second), interpenetration correction moves
\* the dynamic body by the depth along the normal away from the static body,
\* whichever of the two is the first entity, and leaves every static body as
\* it is; contacts between static bodies change nothing.
C10_StaticDynamicCorrection ==
    [][PassRan("resolve_interpenetrations") =>
        /\ \A i \in 1..Len(rigid_bodies) :
              rigid_bodies[i].rb.kind = "Static" =>
                  rigid_bodies'[i] = rigid_bodies[i]
        /\ \A p \in PairsOf(world.contacts) :
              /\ (KindOf(p[1]) = "Static" /\ KindOf(p[2]) = "Dynamic"
                    /\ OnlyPairOf(p[2], p))
                  => \E c \in Deepest(world.contacts, p) :
                        MovedBy(p[2], VScale(c.depth, c.normal))
              /\ (KindOf(p[1]) = "Dynamic" /\ KindOf(p[2]) = "Static"
                    /\ OnlyPairOf(p[1], p))
                  => \E c \in Deepest(world.contacts, p) :
                        MovedBy(p[1], VNeg(VScale(c.depth, c.normal)))
        /\ (\A p \in PairsOf(world.contacts) :
                KindOf(p[1]) = "Static" /\ KindOf(p[2]) = "Static")
              => rigid_bodies' = rigid_bodies]_vars

\* The interpenetration pass has moved a dynamic body that is the first
\* entity of a contact with a static body.
C10_DynamicFirstMoved ==
    /\ pc = "sync_and_update"
    /\ \E p \in PairsOf(world.contacts) :
          /\ KindOf(p[1]) = "Dynamic"
          /\ KindOf(p[2]) = "Static"
          /\ \E c \in Deepest(world.contacts, p) :
                /\ RLt(Zero, c.depth)
                /\ position(lookup_component_for_entity(rigid_bodies, p[1]))
                     = VSub(transforms[p[1]].current.position,
                            VScale(c.depth, c.normal))

\* C23: for a contact between two dynamic bodies with masses m1, m2, depth d
\* and normal n, interpenetration correction moves the first by
\* -(m2/(m1+m2)) d n and the second by +(m1/(m1+m2)) d n, so that the
\* separation along n grows by d and m1 dx1 + m2 dx2 = 0; velocities,
\* orientations and angular momenta stay as they are.
C23_DynamicDynamicCorrection ==
    [][PassRan("resolve_interpenetrations") =>
        \A p \in PairsOf(world.contacts) :
            (/\ KindOf(p[1]) = "Dynamic" /\ KindOf(p[2]) = "Dynamic"
             /\ OnlyPairOf(p[1], p) /\ OnlyPairOf(p[2], p))
            => \E c \in Deepest(world.contacts, p) :
                let2(lookup_component_for_entity(rigid_bodies, p[1]),
                     lookup_component_for_entity(rigid_bodies, p[2]),
                     LAMBDA rb1, rb2 :
                let2(VNeg(VScale(RMul(RDiv(rb2.mass, RAdd(rb1.mass, rb2.mass)),
                                      c.depth), c.normal)),
                     VScale(RMul(RDiv(rb1.mass, RAdd(rb1.mass, rb2.mass)),
                                 c.depth), c.normal),
                     LAMBDA dx1, dx2 :
                    /\ MovedBy(p[1], dx1)
                    /\ MovedBy(p[2], dx2)
                    /\ VDot(VSub(VSub(position(lookup_component_for_entity(
                                                rigid_bodies', p[2])),
                                      position(lookup_component_for_entity(
                                                rigid_bodies', p[1]))),
                                 VSub(position(rb2), position(rb1))),
                            c.normal) = c.depth
                    /\ VAdd(VScale(rb1.mass, dx1), VScale(rb2.mass, dx2))
                          = VZero))]_vars

\* The interpenetration pass has moved two dynamic bodies of different masses
\* apart along a normal that is not an axis.
C23_UnequalMassesMovedApart ==
    /\ pc = "sync_and_update"
    /\ \E p \in PairsOf(world.contacts) :
          /\ KindOf(p[1]) = "Dynamic"
          /\ KindOf(p[2]) = "Dynamic"
          /\ lookup_component_for_entity(rigid_bodies, p[1]).mass
                # lookup_component_for_entity(rigid_bodies, p[2]).mass
          /\ \E c \in Deepest(world.contacts, p) :
                /\ RLt(Zero, c.depth)
                /\ c.normal = <<Zero, Q(3, 5), Q(4, 5)>>
          /\ \A e \in {p[1], p[2]} :
                position(lookup_component_for_entity(rigid_bodies, e))
                    # transforms[e].current.position

\* The pair, normal and depth of each contact of the list.
ContactSet(contacts) ==
    {[pair |-> <<contacts[i].entity1, contacts[i].entity2>>,
      normal |-> contacts[i].contact.normal,
      depth |-> contacts[i].contact.depth] : i \in 1..Len(contacts)}

C28_CorrectedPositionKept ==
    [][(pc = "simulate" /\ ~panicked') =>
        \A i \in 1..Len(rigid_bodies) :
            rigid_bodies[i].rb.kind = "Dynamic" =>
                let(rigid_bodies[i].rb.state, LAMBDA old :
                    /\ rigid_bodies'[i].rb.prev_state.position = old.position
                    /\ rigid_bodies'[i].rb.state.position =
                          VAdd(old.position,
                               VAdd(VScale(dt_arg', old.velocity),
                                    VScale(RMul(RMul(Half, dt_arg'), dt_arg'),
                                           old.acceleration))))]_vars

\* C29: with non-negative frame times the loop `while consume(TIMESTEP)` ends:
\* every call that returns true takes TIMESTEP from a non-negative accumulated
\* time, which lowers the number of whole time steps in it by one; the call
\* that returns false leaves accumulated and consumed as they were, with
\* 0 <= accumulated < TIMESTEP, so that the fraction accumulated / TIMESTEP
\* passes the assertion 0 <= fraction <= 1 of interpolate_transforms.
C29_FractionWithinUnitInterval ==
    [][/\ pc = "consume" =>
            let2(time_keeper, time_keeper', LAMBDA before, left :
                IF pc' = "simulate"
                THEN /\ RLe(Zero, left.accumulated)
                     /\ TicksIn(left.accumulated) =
                            TicksIn(before.accumulated) - 1
                     /\ RAdd(left.accumulated, left.consumed) = left.produced
                ELSE /\ pc' = "interpolate"
                     /\ left.accumulated = before.accumulated
                     /\ left.consumed = before.consumed
                     /\ RLe(Zero, left.accumulated)
                     /\ RLt(left.accumulated, TIMESTEP))
       /\ pc = "interpolate" =>
            let(RDiv(time_keeper.accumulated, TIMESTEP), LAMBDA fraction :
                /\ RLe(Zero, fraction)
                /\ RLt(fraction, One)
                /\ panicked' = panicked
                /\ pc' = IF should_continue' THEN "produce_frame"
                                             ELSE "stopped")]_vars

\* A frame of 0.01 s and a frame of 0.04 s have been produced: the second
\* ran two ticks back to back and left 0.01 s for the interpolation.
C29_TwoTicksAndARemainder ==
    /\ pc = "interpolate"
    /\ frames = 2
    /\ ticks = 2
    /\ time_keeper.accumulated = Q(1, 100)
    /\ time_keeper.consumed = Q(1, 25)
    /\ ~panicked

-----------------------------------------------------------------------------
(* Properties of the velocity resolution of one contact *)

ResolutionDone == rvPc = "done"

Before(e) == lookup_component_for_entity(rvIn, e)

After(e) == lookup_component_for_entity(rvOut, e)

BothDynamic == Before(1).kind = "Dynamic" /\ Before(2).kind = "Dynamic"

Parallel(u, v) == VCross(u, v) = VZero

\* A head-on collision of the two bodies: the contact point is on the line of
\* centers, the normal is the unit vector along that line from the first body
\* to the second, neither body spins, and the bodies approach each other
\* along the line.
HeadOn ==
    /\ BothDynamic
    /\ Before(1).state.angular_momentum = VZero
    /\ Before(2).state.angular_momentum = VZero
    /\ Parallel(VSub(rvContact.contact.world1, Before(1).state.position),
                VSub(Before(2).state.position, Before(1).state.position))
    /\ Parallel(rvContact.contact.normal,
                VSub(Before(2).state.position, Before(1).state.position))
    /\ magnitude2(rvContact.contact.normal) = One
    /\ Parallel(VSub(Before(2).state.velocity, Before(1).state.velocity),
                rvContact.contact.normal)
    /\ RLt(VDot(VSub(Before(2).state.velocity, Before(1).state.velocity),
                rvContact.contact.normal), Zero)

\* C11: the velocity resolution of a head-on contact of two dynamic bodies of
\* equal mass and zero angular momentum, whose contact point is on the line
\* of centers, exchanges their linear velocities: v1' = v2 and v2' = v1.
C11_EqualMassHeadOnSwap ==
    (ResolutionDone /\ HeadOn /\ Before(1).mass = Before(2).mass) =>
        /\ After(1).state.velocity = Before(2).state.velocity
        /\ After(2).state.velocity = Before(1).state.velocity

\* A head-on contact of equal masses has been resolved, and the velocities
\* have changed.
C11_HeadOnResolved ==
    /\ ResolutionDone /\ HeadOn /\ Before(1).mass = Before(2).mass
    /\ Before(1).state.velocity = V3(1, 0, 0)
    /\ Before(2).state.velocity = V3(-1, 0, 0)
    /\ After(1).state.velocity = V3(-1, 0, 0)

\* The velocity of the point of the body that is at the contact point.
PointVelocity(rb, point) ==
    IF rb.kind = "Static" THEN VZero
    ELSE VAdd(rb.state.velocity,
              VCross(M3Vec(world_inverse_inertia(rb.inv_inertia_body,
                                                 rb.state.orientation),
                           rb.state.angular_momentum),
                     VSub(point, rb.state.position)))

\* The contact point the resolution takes: world2 when the second body is
\* static, world1 otherwise.
ResolutionPoint ==
    IF Before(2).kind = "Static" THEN rvContact.contact.world2
    ELSE rvContact.contact.world1

\* (v_p2 - v_p1) . n
SeparatingVelocity ==
    VDot(VSub(PointVelocity(Before(2), ResolutionPoint),
              PointVelocity(Before(1), ResolutionPoint)),
         rvContact.contact.normal)

\* C12: when the separating velocity (v_p2 - v_p1) . n at the contact point
\* is >= 0, the resolution of a dynamic-dynamic or static-dynamic contact
\* returns both bodies as they were: linear velocity, angular momentum,
\* position and orientation are unchanged.
C12_SeparatingUnchanged ==
    (ResolutionDone /\ RLe(Zero, SeparatingVelocity)) => rvOut = rvIn

\* The contact of a spinning dynamic body that moves away from a static one
\* has been resolved.
C12_SeparatingFromStatic ==
    /\ ResolutionDone
    /\ Before(1).kind = "Static"
    /\ Before(2).state.angular_momentum # VZero
    /\ RLt(Zero, SeparatingVelocity)
    /\ After(2) = Before(2)

\* The inverse inertia tensor of the body in the world frame, applied to u:
\* u is taken to the body frame, multiplied there, and taken back.
InverseInertiaApplied(rb, u) ==
    rotate_vector(rb.state.orientation,
        M3Vec(rb.inv_inertia_body,
              rotate_vector(QInvert(rb.state.orientation), u)))

\* r_i: the contact point relative to the position of the body.
Arm(e) == VSub(rvContact.contact.world1, Before(e).state.position)

\* j = -(1 + e) v_sep / (1/m1 + 1/m2
\*        + n . [I1inv (r1 x n) x r1 + I2inv (r2 x n) x r2]) with e = 1.
ImpulseOfClaim ==
    let(rvContact.contact.normal, LAMBDA n :
        RDiv(RNeg(RMul(Two, SeparatingVelocity)),
             RAdd(RAdd(RInv(Before(1).mass), RInv(Before(2).mass)),
                  VDot(n,
                       VAdd(VCross(InverseInertiaApplied(Before(1),
                                        VCross(Arm(1), n)), Arm(1)),
                            VCross(InverseInertiaApplied(Before(2),
                                        VCross(Arm(2), n)), Arm(2)))))))

\* C24: for an approaching dynamic-dynamic contact (v_sep < 0) the resolution
\* applies v1' = v1 - (j/m1) n, v2' = v2 + (j/m2) n, L1' = L1 - j (r1 x n),
\* L2' = L2 + j (r2 x n), with j the impulse of restitution 1 over
\* 1/m1 + 1/m2 and the angular terms of the world-frame inverse inertia
\* tensors, r_i being the contact point minus the position of body i.
C24_ImpulseApplied ==
    (ResolutionDone /\ BothDynamic /\ RLt(SeparatingVelocity, Zero)) =>
        let2(ImpulseOfClaim, rvContact.contact.normal, LAMBDA j, n :
            /\ After(1).state.velocity =
                  VSub(Before(1).state.velocity,
                       VScale(RDiv(j, Before(1).mass), n))
            /\ After(2).state.velocity =
                  VAdd(Before(2).state.velocity,
                       VScale(RDiv(j, Before(2).mass), n))
            /\ After(1).state.angular_momentum =
                  VSub(Before(1).state.angular_momentum,
                       VScale(j, VCross(Arm(1), n)))
            /\ After(2).state.angular_momentum =
                  VAdd(Before(2).state.angular_momentum,
                       VScale(j, VCross(Arm(2), n))))

\* An approaching contact off the line of centers of a ball and a turned,
\* spinning body whose inertia differs from axis to axis has been resolved.
C24_TurnedBodyResolved ==
    /\ ResolutionDone /\ BothDynamic
    /\ RLt(SeparatingVelocity, Zero)
    /\ Before(1).state.orientation = <<Half, Half, Half, Half>>
    /\ Before(1).state.angular_momentum # VZero
    /\ VCross(Arm(1), rvContact.contact.normal) # VZero
    /\ After(1).state.angular_momentum # Before(1).state.angular_momentum

\* One of the two bodies is static and the other dynamic.
StaticDynamic == Before(1).kind # Before(2).kind

DynamicEntity == IF Before(1).kind = "Dynamic" THEN 1 ELSE 2

StaticEntity == IF Before(1).kind = "Static" THEN 1 ELSE 2

\* The normal of the contact, turned to point from the static body to the
\* dynamic one (the normal of a contact points from its first entity to its
\* second).
NormalFromStatic ==
    IF StaticEntity = 1 THEN rvContact.contact.normal
    ELSE VNeg(rvContact.contact.normal)

\* The contact point on the static body.
PointOnStatic ==
    IF StaticEntity = 1 THEN rvContact.contact.world1
    ELSE rvContact.contact.world2

\* What C25 gives for the dynamic body rb: the one-sided impulse of
\* restitution 1 along n at the point, over 1/m and the angular term of rb.
OneSidedImpulse(rb, point, n) ==
    let2(VSub(point, rb.state.position),
         InverseInertiaApplied(rb, rb.state.angular_momentum), LAMBDA r, w :
    let(VDot(VAdd(rb.state.velocity, VCross(w, r)), n), LAMBDA v_sep :
        IF RLt(v_sep, Zero)
        THEN let(RDiv(RNeg(RMul(Two, v_sep)),
                      RAdd(RInv(rb.mass),
                           VDot(n, VCross(InverseInertiaApplied(rb,
                                            VCross(r, n)), r)))),
                 LAMBDA j :
                    [rb EXCEPT
                        !.state.velocity = VAdd(@, VScale(RDiv(j, rb.mass), n)),
                        !.state.angular_momentum =
                            VAdd(@, VScale(j, VCross(r, n)))])
        ELSE rb))

\* The same contact with the two entities exchanged.
Exchanged(bodies) ==
    <<[rb |-> bodies[2].rb, entity |-> 1], [rb |-> bodies[1].rb, entity |-> 2]>>

ExchangedContact ==
    Contact(1, 2, rvContact.contact.world2, rvContact.contact.world1,
            VNeg(rvContact.contact.normal), rvContact.contact.depth)

\* C25: the velocity resolution of a contact of a static and a dynamic body
\* leaves the static body as it is and gives the dynamic body the one-sided
\* impulse, computed with the mass and inertia of the dynamic body alone, the
\* normal pointing from the static body to the dynamic one and the contact
\* point on the static body; the dynamic body comes out the same when the two
\* entities of the contact are exchanged.
C25_OneSidedImpulse ==
    (ResolutionDone /\ StaticDynamic) =>
        /\ After(StaticEntity) = Before(StaticEntity)
        /\ After(DynamicEntity) =
              OneSidedImpulse(Before(DynamicEntity), PointOnStatic,
                              NormalFromStatic)
        /\ lookup_component_for_entity(
              resolve_velocities(Exchanged(rvIn), <<ExchangedContact>>),
              StaticEntity)
            = After(DynamicEntity)

\* A spinning dynamic body that is the first entity of a contact with a
\* static body, and moves toward it, has been given an impulse.
C25_DynamicFirstBounced ==
    /\ ResolutionDone
    /\ Before(1).kind = "Dynamic" /\ Before(2).kind = "Static"
    /\ Before(1).state.angular_momentum # VZero
    /\ After(1).state.velocity # Before(1).state.velocity
    /\ After(1).state.angular_momentum # Before(1).state.angular_momentum

\* C30: the velocity resolution of a contact of two dynamic bodies leaves
\* m1 v1 + m2 v2 as it was, whether or not an impulse is applied.
C30_MomentumConserved ==
    (ResolutionDone /\ BothDynamic) =>
        VAdd(VScale(After(1).mass, After(1).state.velocity),
             VScale(After(2).mass, After(2).state.velocity))
          = VAdd(VScale(Before(1).mass, Before(1).state.velocity),
                 VScale(Before(2).mass, Before(2).state.velocity))

\* An impulse has changed the velocities of two bodies of different masses,
\* the contact being off the line of centers.
C30_ImpulseBetweenUnequalMasses ==
    /\ ResolutionDone /\ BothDynamic
    /\ Before(1).mass # Before(2).mass
    /\ RLt(SeparatingVelocity, Zero)
    /\ rvContact.contact.world1 = V3(0, 1, 0)
    /\ After(1).state.velocity # Before(1).state.velocity
    /\ After(2).state.velocity # Before(2).state.velocity

-----------------------------------------------------------------------------
(* Properties of EntityManager and PhysicsComponentStore *)

PositiveFinite(mass) == RLt(Zero, mass) /\ mass[2] # 0

LastRegistration == registrations[Len(registrations)]

\* C13: a registration with a mass that is not positive and finite (<= 0,
\* infinite or NaN) aborts, and no such mass is ever stored.
C13_BadMassAborts ==
    /\ \A k \in 1..Len(components.mass) : PositiveFinite(components.mass[k])
    /\ (/\ registrations # <<>>
        /\ ~PositiveFinite(LastRegistration.component.mass)) => store_panicked

\* The arguments of the call of set_component_properties this step makes.
Registered(entity, component) ==
    registrations' = Append(registrations,
                            [entity |-> entity, component |-> component])

\* C14: a registration with an inertia tensor that is not invertible aborts,
\* and the store is as it was before the call: the entity map and every
\* array of the components are unchanged.
C14_SingularInertiaAbortsUnchanged ==
    [][\A entity \in RangeOf(created), component \in ComponentInputs :
          (Registered(entity, component) /\ invert(component.inertia_body) = "Err")
              => store_panicked' /\ components' = components]_vars

\* A component of non-negative mass and singular inertia tensor has been
\* refused after another one had been stored.
C14_SingularRefused ==
    /\ store_panicked
    /\ Len(registrations) = 2
    /\ LastRegistration.component.mass = R(1)
    /\ LastRegistration.component.inertia_body = M3Singular
    /\ Len(components.entity_map) = 1
    /\ components.mass = <<R(1)>>

\* C16: create returns the ids 0, 1, 2, ... in the order of the calls, so
\* that no id is returned twice, and alive(e) holds exactly for the entities
\* created and not destroyed since.
C16_SequentialIdsNeverReused ==
    /\ \A k \in 1..Len(created) : created[k] = k - 1
    /\ \A entity \in 0..MaxEntities :
          alive(entity_manager, entity) <=>
              (entity \in RangeOf(created) /\ entity \notin destroyed)

\* An entity has been created after the first one was destroyed, and both
\* others are alive.
C16_CreatedAfterDestroy ==
    /\ created = <<0, 1, 2>>
    /\ destroyed = {0}
    /\ ~alive(entity_manager, 0)
    /\ alive(entity_manager, 1)
    /\ alive(entity_manager, 2)

InitNarrow == NarrowInit /\ SimIdle /\ HostIdle /\ ResolverIdle /\ StoreIdle

SpecNarrow == InitNarrow /\ [][NarrowNext]_vars

InitSim == SimInit /\ NarrowIdle /\ HostIdle /\ ResolverIdle /\ StoreIdle

SpecSim == InitSim /\ [][SimNext]_vars

Init == HostInit /\ NarrowIdle /\ ResolverIdle /\ StoreIdle

Spec == Init /\ [][HostNext]_vars

InitResolver == ResolverInit /\ NarrowIdle /\ SimIdle /\ HostIdle /\ StoreIdle

SpecResolver == InitResolver /\ [][ResolverNext]_vars

InitStore == StoreInit /\ NarrowIdle /\ SimIdle /\ HostIdle /\ ResolverIdle

SpecStore == InitStore /\ [][StoreNext]_vars

=============================================================================
